---- MODULE Spec2Model ----
(***************************************************************************)
(* Group membership lifecycle orchestrator of worker_baileys:              *)
(*   src/src/core/addTask.ts     (processAddQueue, current revision,       *)
(*                                lines 379-754)                           *)
(*   src/src/core/removeTask.ts  (processRemoveQueue)                      *)
(*   src/src/db/pgsql.ts         (group_requests, member_groups,           *)
(*                                whatsapp_authorization statements)       *)
(*   src/unnamed/part_007        (delaySecs, waParticipants, phoneToJid)   *)
(*                                                                         *)
(* Strings are modelled as sequences of one-character strings so that the  *)
(* conversions of the code (digit stripping, slice(-8), suffixing, split)  *)
(* are computed as the code computes them.                                 *)
(***************************************************************************)
EXTENDS Integers, Sequences, FiniteSets, TLC

(***************************************************************************)
(* Character-level helpers                                                 *)
(***************************************************************************)
\* JavaScript null / undefined where a string is expected, kept distinct from
\* every character sequence
Null == <<"NULL">>

\* JavaScript null / undefined where an object is expected
Nil == [nil |-> TRUE]

Digits == {"0", "1", "2", "3", "4", "5", "6", "7", "8", "9"}

\* String.prototype.replace(/\D/g, "")
StripNonDigits(s) == SelectSeq(s, LAMBDA c : c \in Digits)

\* String.prototype.slice(-n)
SliceLast(s, n) == IF Len(s) <= n THEN s ELSE SubSeq(s, Len(s) - n + 1, Len(s))

\* String.prototype.endsWith
EndsWith(s, suf) ==
    /\ Len(s) >= Len(suf)
    /\ SubSeq(s, Len(s) - Len(suf) + 1, Len(s)) = suf

\* String.prototype.split(c)[0]
SplitFirst(s, c) ==
    LET hits == {k \in 1..Len(s) : s[k] = c}
    IN  IF hits = {} THEN s
        ELSE SubSeq(s, 1, (CHOOSE k \in hits : \A j \in hits : k <= j) - 1)

\* String.prototype.trim (only the blank character is modelled as whitespace)
RECURSIVE TrimLeft(_)
TrimLeft(s) == IF s # <<>> /\ Head(s) = " " THEN TrimLeft(Tail(s)) ELSE s

RECURSIVE TrimRight(_)
TrimRight(s) ==
    IF s # <<>> /\ s[Len(s)] = " " THEN TrimRight(SubSeq(s, 1, Len(s) - 1)) ELSE s

Trim(s) == TrimRight(TrimLeft(s))

DigitValue(c) ==
    CASE c = "0" -> 0 [] c = "1" -> 1 [] c = "2" -> 2 [] c = "3" -> 3
      [] c = "4" -> 4 [] c = "5" -> 5 [] c = "6" -> 6 [] c = "7" -> 7
      [] c = "8" -> 8 [] c = "9" -> 9

RECURSIVE DecimalValue(_)
DecimalValue(s) ==
    IF s = <<>> THEN 0
    ELSE 10 * DecimalValue(SubSeq(s, 1, Len(s) - 1)) + DigitValue(s[Len(s)])

\* A JavaScript number | null: [finite |-> FALSE] is NaN or null
NotFinite == [finite |-> FALSE, n |-> 0]
Finite(n) == [finite |-> TRUE, n |-> n]

\* Number(string) for the strings of the model: surrounding blanks are
\* ignored, the empty string is 0, an unsigned decimal is its value and
\* everything else is NaN
ToNumber(s) ==
    LET t == Trim(s)
    IN  IF t = <<>> THEN Finite(0)
        ELSE IF \A k \in 1..Len(t) : t[k] \in Digits THEN Finite(DecimalValue(t))
        ELSE NotFinite

WA_SUFFIX == <<"@", "s", ".", "w", "h", "a", "t", "s", "a", "p", "p", ".", "n", "e", "t">>
GROUP_SUFFIX == <<"@", "g", ".", "u", "s">>
LID_SUFFIX == <<"@", "l", "i", "d">>

(***************************************************************************)
(* src/unnamed/part_007: phoneToJid                                        *)
(***************************************************************************)
\* phoneToUserJid throws for an input without digits: Null stands for the throw
phoneToUserJid(input) ==
    LET digits == StripNonDigits(IF input = Null THEN <<>> ELSE input)
    IN  IF digits = <<>> THEN Null ELSE digits \o WA_SUFFIX

\* asGroupJid throws for an empty group id: Null stands for the throw
asGroupJid(groupId) ==
    IF groupId = Null \/ groupId = <<>> THEN Null
    ELSE IF EndsWith(groupId, GROUP_SUFFIX) THEN groupId
    ELSE groupId \o GROUP_SUFFIX

(***************************************************************************)
(* src/unnamed/part_007: waParticipants                                    *)
(***************************************************************************)
\* extractDigits of a string (or null/undefined)
extractDigits(idLike) ==
    IF idLike = Null \/ idLike = <<>> THEN Null
    ELSE LET beforeAt == SplitFirst(idLike, "@")
             beforeColon == SplitFirst(beforeAt, ":")
             digits == StripNonDigits(beforeColon)
         IN  IF digits = <<>> THEN Null ELSE digits

\* collectCandidateDigits of a participant record
collectCandidateDigits(p) ==
    {extractDigits(p.phoneNumber), extractDigits(p.id), extractDigits(p.jid),
     extractDigits(p.lid), extractDigits(p.user)} \ {Null}

buildTargetDigits(userIdLike, altId) ==
    {extractDigits(userIdLike), extractDigits(altId)} \ {Null}

\* a lookup that returns the last matching participant, set against findParticipant
findParticipant_LastMatch(meta, userIdLike, altId) ==
    LET targets == buildTargetDigits(userIdLike, altId)
        hits == {k \in 1..Len(meta.participants) :
                    collectCandidateDigits(meta.participants[k]) \cap targets # {}}
    IN  IF targets = {} \/ hits = {} THEN Nil
        ELSE meta.participants[CHOOSE k \in hits : \A j \in hits : k >= j]

\* Array.prototype.find over the roster; Nil when nothing matches
findParticipant(meta, userIdLike, altId) ==
    LET targets == buildTargetDigits(userIdLike, altId)
        hits == {k \in 1..Len(meta.participants) :
                    collectCandidateDigits(meta.participants[k]) \cap targets # {}}
    IN  IF targets = {} \/ hits = {} THEN Nil
        ELSE meta.participants[CHOOSE k \in hits : \A j \in hits : k <= j]

isParticipantAdmin(meta, userIdLike, altId) ==
    LET p == findParticipant(meta, userIdLike, altId)
    IN  p # Nil /\ (p.admin = "admin" \/ p.admin = "superadmin")

(***************************************************************************)
(* Inputs of the model: phones, groups, rosters, authorization tables      *)
(***************************************************************************)
KeyA == <<"9", "1", "2", "3", "4", "5", "6", "7">>
KeyC == <<"8", "8", "8", "8", "1", "2", "3", "4">>
KeyD == <<"7", "0", "7", "0", "7", "0", "7", "0">>

\* the same subscriber written with and without country prefix
PhoneA == <<"+", "5", "5", " ">> \o KeyA
PhoneB == KeyA
\* a subscriber that only another worker is authorized to contact
PhoneC == <<"5", "5">> \o KeyC
\* a subscriber without any authorization record
PhoneD == <<"5", "5">> \o KeyD
\* a phone field without any digit
PhoneX == <<"-">>

GroupRaw == <<"1", "2", "0", "3">>
GroupFull == GroupRaw \o GROUP_SUFFIX
CommunityRaw == <<"1", "2", "0", "9">>

\* the worker of this process (index.ts:91-94) and a foreign worker
WorkerId == 1
OtherWorkerId == WorkerId + 1

AuthRow(phone, worker) == [phone_number |-> phone, worker_id |-> worker]

\* contents of table whatsapp_authorization the process may run against
AuthTables ==
    { {AuthRow(<<"5", "5">> \o KeyA, WorkerId), AuthRow(<<"5", "5">> \o KeyC, OtherWorkerId)},
      {AuthRow(<<"5", "5">> \o KeyA, WorkerId), AuthRow(<<"5", "5", "1", "1">> \o KeyA, WorkerId),
       AuthRow(<<"5", "5">> \o KeyC, WorkerId)} }

MemberPhone(phone, rep) == [phone |-> phone, is_legal_rep |-> rep]

\* rows getMemberPhoneNumbers (pgsql.ts:103-131) may return for registration 7
PhoneLists ==
    { <<>>,
      <<MemberPhone(PhoneA, FALSE)>>,
      <<MemberPhone(PhoneA, TRUE), MemberPhone(PhoneB, TRUE)>>,
      <<MemberPhone(PhoneX, TRUE), MemberPhone(PhoneC, FALSE)>>,
      <<MemberPhone(PhoneD, TRUE), MemberPhone(PhoneA, FALSE)>>,
      <<MemberPhone(PhoneC, FALSE), MemberPhone(PhoneB, TRUE)>> }

\* rows getMemberPhoneNumbers may return per registration: registration 9 has
\* at most one phone on file
getMemberPhoneNumbers(registration_id) ==
    IF registration_id = 9
    THEN {<<>>, <<MemberPhone(PhoneA, FALSE)>>}
    ELSE PhoneLists

\* sock.user of the connected bot
BotUser == [id |-> <<"7", "7", ":", "5">> \o WA_SUFFIX, phoneNumber |-> Null]

Participant(id, phoneNumber, lid, admin) ==
    [id |-> id, phoneNumber |-> phoneNumber, jid |-> Null, lid |-> lid, user |-> Null,
     admin |-> admin]

BotAsAdmin == Participant(<<"7", "7">> \o WA_SUFFIX, Null, Null, "admin")
BotAsSuperByLid ==
    Participant(<<"5", "0", "0">> \o LID_SUFFIX, <<"7", "7">> \o WA_SUFFIX,
                <<"5", "0", "0">> \o LID_SUFFIX, "superadmin")
BotAsMember == Participant(<<"7", "7", ":", "2">> \o WA_SUFFIX, Null, Null, "none")
TargetJid == <<"5", "5">> \o KeyA \o WA_SUFFIX
TargetAsMember == Participant(TargetJid, Null, Null, "none")
TargetAsAdminByLid ==
    Participant(<<"6", "0", "0">> \o LID_SUFFIX, TargetJid, <<"6", "0", "0">> \o LID_SUFFIX, "admin")
TargetAsSuper == Participant(<<"5", "5">> \o KeyA \o <<":", "9">> \o WA_SUFFIX, Null, Null, "superadmin")
Stranger == Participant(<<"3", "1">> \o WA_SUFFIX, Null, Null, "none")

Meta(participants) == [participants |-> participants]

\* roster snapshots sock.groupMetadata may return
Rosters ==
    { Meta(<<BotAsAdmin, TargetAsMember>>),
      Meta(<<BotAsSuperByLid, TargetAsSuper, Stranger>>),
      Meta(<<BotAsMember, TargetAsAdminByLid>>),
      Meta(<<Stranger>>),
      Meta(<<Stranger, TargetAsMember, TargetAsAdminByLid>>) }

\* a collaborator call settles with a value, throws, or is cut by withTimeout
\* (addTask.ts:446-457): both of the latter reject the awaited promise
Rejections == {"throw", "timeout"}

\* outcomes of withTimeout(sock.groupMetadata(..)); "none" is a falsy result
RosterOutcomes ==
    {[kind |-> k, meta |-> Nil] : k \in Rejections \cup {"none"}}
        \cup {[kind |-> "meta", meta |-> m] : m \in Rosters}

StatusNumber(n) == [t |-> "number", n |-> n, s |-> <<>>]
StatusString(s) == [t |-> "string", n |-> 0, s |-> s]
StatusMissing == [t |-> "undefined", n |-> 0, s |-> <<>>]

\* values of resp[0].status the collaborator may report
StatusValues ==
    { StatusNumber(200), StatusNumber(409), StatusNumber(403),
      StatusString(<<"2", "0", "0">>), StatusString(<<"4", "0", "9">>),
      StatusString(<<" ">>), StatusString(<<"o", "k">>), StatusMissing }

\* outcomes of withTimeout(sock.groupParticipantsUpdate(..)): a rejection, a
\* void result, an empty array, or an array whose first entry carries status
UpdateOutcomes ==
    {[kind |-> k, status |-> StatusMissing] : k \in Rejections \cup {"void", "empty"}}
        \cup {[kind |-> "array", status |-> st] : st \in StatusValues}

\* outcomes of the removal call: those above and status 207 (removeTask.ts:240)
RemoveUpdateOutcomes ==
    UpdateOutcomes \cup {[kind |-> "array", status |-> StatusNumber(207)]}

\* delay configuration read from the environment (addTask.ts:415-417)
DelayConfigs ==
    { [MIN_DELAY |-> 1, MAX_DELAY |-> 2, DELAY_JITTER |-> 0],
      [MIN_DELAY |-> 3, MAX_DELAY |-> 2, DELAY_JITTER |-> 0] }

AddItem(req, reg, group, type) ==
    [request_id |-> req, registration_id |-> reg, group_id |-> group, group_type |-> type]

RequestIds == {1, 2}

AddQueues ==
    { <<>>,
      <<AddItem(1, <<"7">>, GroupRaw, "RJB")>>,
      <<AddItem(2, <<"7">>, GroupFull, "DEFAULT")>>,
      <<AddItem(1, <<"8">>, <<>>, "DEFAULT")>>,
      <<AddItem(1, <<"9">>, GroupFull, "DEFAULT"), AddItem(1, <<"9">>, GroupRaw, "DEFAULT")>>,
      <<AddItem(2, <<"9">>, <<>>, "RJB"), AddItem(1, <<"9">>, GroupRaw, "RJB")>> }

(***************************************************************************)
(* State                                                                   *)
(***************************************************************************)
VARIABLES
    \* Redis list addQueue (redis.ts:91-95)
    addQueue,
    \* PostgreSQL tables (pgsql.ts)
    whatsapp_authorization, group_requests, member_groups,
    \* NOW() of the database, one tick per popped work item
    now,
    \* MIN_DELAY / MAX_DELAY / DELAY_JITTER of the process
    config,
    \* position inside processAddQueue and its locals
    pc, item, groupJid, memberPhones, i, results, notAuthorizedNumbers,
    \* locals of the current loop iteration and of addMemberToGroup
    cur,
    \* calls issued while the current work item is processed, in order
    hist,
    \* group_requests as it was when the current work item was popped
    before,
    \* Redis list removeQueue (redis.ts:100-104)
    removeQueue,
    \* position inside processRemoveQueue / removeMemberFromGroup and their locals
    rpc, ritem, ruserJid, rosters, rresult,
    \* value returned by processRemoveQueue for the current work item
    rret,
    \* calls issued while the current Remove work item is processed, in order
    rhist,
    \* --add / --remove of the command line (index.ts:27-35)
    addMode, removeMode,
    \* position inside mainLoop and inside the flow it awaits (index.ts:112-144)
    lpc,
    \* work items waiting in addQueue and removeQueue, counted
    queued,
    \* the bounded collaborator call the flow awaits: "none" or "awaiting"
    call,
    \* how the latest bounded call handed control back to the flow
    lastCall,
    \* collaborator operations still in flight after their withTimeout wrapper
    \* reported the timeout, counted up to MaxOrphans
    orphans,
    \* pops of the current iteration of mainLoop, per queue
    iter,
    \* whether a delaySecs finished since the latest pop, what lay between the
    \* latest two pops, and the operations in flight at the latest pop
    delayed, gap, orphansAtPop,
    \* which revision of the entry point runs: "waitForReconnect" (index.ts) or
    \* "startWorker" (part_010)
    revision,
    \* the process and, once it called process.exit(1), why
    proc, exitReason,
    \* connection and lastDisconnect of the latest connection.update
    connection, lastDisconnect,
    \* pending waitForReconnect promises, counted up to MaxWaiters
    waiters,
    \* main() of part_010: "running", or "restarting" between two sockets
    mainState,
    \* sockets made so far
    sockets,
    \* mainLoopStarted; whether the loop of the current main() runs; loops of
    \* earlier main() calls that have not yet left while (shouldRun)
    mainLoopStarted, running, draining,
    \* member_groups before the latest write to it, and the latest two writes
    rowsPrev, writes,
    \* withRetry (addTask.ts:88-108): MAX_RETRIES and ADD_DELAY of the
    \* environment, the position in the function, attempt, lastErr, what each
    \* invocation of fn did, the backoffs slept, and how the call ended
    retryEnv, wpc, retryAttempt, lastErr, invocations, sleeps, retryOut,
    \* firstContactWelcome.ts: normalizedTargetName, the subject of each group,
    \* groupNameCache, whether primeiro_contato.mp3 can be read
    normalizedTargetName, subjects, groupNameCache, audioFile,
    \* the first-contact locks held in Redis (by any worker)
    locks,
    \* pendingAudioRequests (group -> number of its inner Map, 0 for none) and
    \* the inner Maps made so far (sets of keyed requests)
    pendingAudioRequests, requestMaps,
    \* the setTimeout timers of pending requests that were neither cleared nor fired
    timers,
    \* the group-participants.update handler in flight (Nil for none) and the
    \* messages.upsert handlers in flight
    join, replies,
    \* events delivered so far; the latest lock attempt of the join handler and
    \* the sends attempted for its member; the latest audio send; the message
    \* handled last
    events, joinLog, sends, audio, handled,
    \* a call of findParticipant / isParticipantAdmin (part_007:158-183): its
    \* arguments, how far it got, and what the two functions returned
    findArgs, findPc, findResult, adminResult,
    \* several workers that share one Redis (redis.ts:54-72,
    \* firstContactWelcome.ts:167-278): the first-contact lock keys Redis
    \* holds, and for each worker how far its group-participants.update
    \* handler got with the member that joined
    redisLocks, fleet,
    \* handleMessageModeration (part_006:210-296): ENABLE_LINK_MODERATION, the
    \* message handled, the position in the handler, the roster it resolved,
    \* what deleteMessageIfAllowed returned, the collaborator calls made for
    \* the message, and table whatsapp_moderation
    linkModeration, modMsg, modPc, modMeta, deletion, modLog, whatsapp_moderation

sharedVars == <<member_groups, now, config>>

addVars ==
    <<addQueue, whatsapp_authorization, group_requests, pc, item, groupJid, memberPhones,
      i, results, notAuthorizedNumbers, cur, hist, before>>

removeVars == <<removeQueue, rpc, ritem, ruserJid, rosters, rresult, rret, rhist>>

loopVars ==
    <<addMode, removeMode, lpc, queued, call, lastCall, orphans, iter, delayed, gap,
      orphansAtPop>>

connVars ==
    <<revision, proc, exitReason, connection, lastDisconnect, waiters, mainState, sockets,
      mainLoopStarted, running, draining>>

rowVars == <<rowsPrev, writes>>

retryVars == <<retryEnv, wpc, retryAttempt, lastErr, invocations, sleeps, retryOut>>

welcomeVars ==
    <<normalizedTargetName, subjects, groupNameCache, audioFile, locks,
      pendingAudioRequests, requestMaps, timers, join, replies, events, joinLog, sends,
      audio, handled>>

findVars == <<findArgs, findPc, findResult, adminResult>>

modVars ==
    <<linkModeration, modMsg, modPc, modMeta, deletion, modLog, whatsapp_moderation>>

fleetVars == <<redisLocks, fleet>>

moreVars == <<findVars, modVars, fleetVars>>

extraVars == <<rowVars, retryVars, welcomeVars, moreVars>>

workerVars == <<loopVars, connVars, extraVars>>

vars == <<sharedVars, addVars, removeVars, workerVars>>

Ev(op, idx, arg) == [op |-> op, idx |-> idx, arg |-> arg]

\* number of calls op issued for phone idx of the current work item
Calls(op, idx) == Cardinality({k \in 1..Len(hist) : hist[k].op = op /\ hist[k].idx = idx})

CallsOf(op) == Cardinality({k \in 1..Len(hist) : hist[k].op = op})

(***************************************************************************)
(* src/src/db/pgsql.ts                                                     *)
(***************************************************************************)
NoReason == [kind |-> "", numbers |-> <<>>]

RequestRow(fulfilled, attempts) ==
    [fulfilled |-> fulfilled, no_of_attempts |-> attempts, last_attempt |-> 0,
     updated_at |-> 0, failure_reason |-> NoReason]

\* UPDATE group_requests SET fulfilled = true, last_attempt = NOW(), updated_at = NOW()
registerWhatsappAddFulfilled(db, id, t) ==
    [r \in DOMAIN db |->
        IF r = id
        THEN [db[r] EXCEPT !.fulfilled = TRUE, !.last_attempt = t, !.updated_at = t]
        ELSE db[r]]

\* an attempt write that also clears fulfilled, set against registerWhatsappAddAttempt below
registerWhatsappAddAttempt_ResetsFulfilled(db, id, t) ==
    [r \in DOMAIN db |->
        IF r = id
        THEN [db[r] EXCEPT !.fulfilled = FALSE, !.no_of_attempts = @ + 1,
                           !.last_attempt = t, !.updated_at = t]
        ELSE db[r]]

\* UPDATE group_requests SET no_of_attempts = no_of_attempts + 1, last_attempt = NOW(), ..
registerWhatsappAddAttempt(db, id, t) ==
    [r \in DOMAIN db |->
        IF r = id
        THEN [db[r] EXCEPT !.no_of_attempts = @ + 1, !.last_attempt = t, !.updated_at = t]
        ELSE db[r]]

\* UPDATE group_requests SET failure_reason = $2
sendAdditionFailedReason(db, id, reason) ==
    [r \in DOMAIN db |-> IF r = id THEN [db[r] EXCEPT !.failure_reason = reason] ELSE db[r]]

\* a lookup that ignores worker_id, set against AuthorizationRows below
AuthorizationRows_AnyWorker(table, last8digits, worker_id) ==
    {row \in table : SliceLast(row.phone_number, 8) = last8digits}

\* SELECT .. FROM whatsapp_authorization WHERE RIGHT(phone_number, 8) = $1 AND worker_id = $2
AuthorizationRows(table, last8digits, worker_id) ==
    {row \in table : SliceLast(row.phone_number, 8) = last8digits /\ row.worker_id = worker_id}

\* INSERT INTO member_groups (registration_id, phone_number, group_id, status)
recordUserEntryToGroup(rows, registration_id, phone_number, group_id, status) ==
    Append(rows, [registration_id |-> registration_id, phone_number |-> phone_number,
                  group_id |-> group_id, status |-> status,
                  exit_date |-> 0, removal_reason |-> <<>>])

(***************************************************************************)
(* src/src/core/addTask.ts, current revision                               *)
(***************************************************************************)
normalizeDigits(phone) ==
    IF phone = Null \/ phone = <<>> THEN Null
    ELSE LET digits == StripNonDigits(phone)
         IN  IF digits = <<>> THEN Null ELSE digits

\* asStatusCode: a number, or null
asStatusCode(status) ==
    IF status.t = "number" THEN Finite(status.n)
    ELSE IF status.t = "string" /\ Trim(status.s) # <<>> THEN ToNumber(status.s)
    ELSE NotFinite

\* resp?.[0]?.status of an update outcome that did not reject
FirstStatus(out) == IF out.kind = "array" THEN out.status ELSE StatusMissing

\* an admin check that always passes, set against checkIfSelfIsAdmin below
checkIfSelfIsAdmin_Always(user, meta) == TRUE

checkIfSelfIsAdmin(user, meta) ==
    IF user.id = Null /\ user.phoneNumber = Null THEN FALSE
    ELSE isParticipantAdmin(meta, user.id, user.phoneNumber)

baseResult(processed, total) ==
    [added |-> FALSE, inviteSent |-> FALSE, alreadyInGroup |-> FALSE,
     processedPhones |-> processed, totalPhones |-> total]

\* delaySecs (part_007:10-19) rejects its arguments
delaySecsThrows(minSeconds, maxSeconds, jitterSeconds) ==
    \/ minSeconds < 0 \/ maxSeconds < 0 \/ jitterSeconds < 0
    \/ maxSeconds < minSeconds

PolicyDelayThrows == delaySecsThrows(config.MIN_DELAY, config.MAX_DELAY, config.DELAY_JITTER)

NoCur == [normalized |-> Null, authorized |-> Nil, userJid |-> Null,
          out |-> Nil, attempt |-> "none"]

Reason(kind, numbers) == [kind |-> kind, numbers |-> numbers]

\* a failure boundary that tells nobody, set against SafeNotifyFailure below
SafeNotifyFailure_Silent(db, h, idx, reason, writeOk) == [db |-> db, hist |-> h]

\* safeNotifyFailure (addTask.ts:717-736): the Telegram notification is only
\* reached when the failure_reason write did not throw; nothing propagates
SafeNotifyFailure(db, h, idx, reason, writeOk) ==
    [db |-> IF writeOk THEN sendAdditionFailedReason(db, item.request_id, reason) ELSE db,
     hist |-> h \o <<Ev("sendAdditionFailedReason", idx, <<reason.kind>>)>>
               \o (IF writeOk THEN <<Ev("notifyAdditionFailure", idx, <<reason.kind>>)>> ELSE <<>>)]

\* safeRegisterAttempt (addTask.ts:738-744)
SafeRegisterAttempt(db, h, writeOk) ==
    [db |-> IF writeOk THEN registerWhatsappAddAttempt(db, item.request_id, now) ELSE db,
     hist |-> Append(h, Ev("registerWhatsappAddAttempt", 0, <<>>))]

NoRosters == [community |-> Nil, group |-> Nil]

NoPops == [add |-> 0, remove |-> 0]

\* mainLoop has not started
LoopIdle ==
    /\ lpc = "idle"
    /\ queued = NoPops
    /\ call = "none"
    /\ lastCall = "none"
    /\ orphans = 0
    /\ iter = NoPops
    /\ delayed = FALSE
    /\ gap = "start"
    /\ orphansAtPop = 0

\* no socket was made yet
ConnIdle ==
    /\ revision = "waitForReconnect"
    /\ proc = "running"
    /\ exitReason = "none"
    /\ connection = "none"
    /\ lastDisconnect = "none"
    /\ waiters = 0
    /\ mainState = "running"
    /\ sockets = 0
    /\ mainLoopStarted = FALSE
    /\ running = FALSE
    /\ draining = 0

\* no write to member_groups was observed
RowsIdle ==
    /\ rowsPrev = <<>>
    /\ writes = <<>>

\* withRetry has not been called
RetryIdle ==
    /\ retryEnv = Nil
    /\ wpc = "idle"
    /\ retryAttempt = 0
    /\ lastErr = Nil
    /\ invocations = <<>>
    /\ sleeps = <<>>
    /\ retryOut = Nil

\* registerFirstContactWelcome has not been called
WelcomeIdle ==
    /\ normalizedTargetName = "none"
    /\ subjects = <<>>
    /\ groupNameCache = <<>>
    /\ audioFile = FALSE
    /\ locks = {}
    /\ pendingAudioRequests = <<>>
    /\ requestMaps = <<>>
    /\ timers = {}
    /\ join = Nil
    /\ replies = <<>>
    /\ events = 0
    /\ joinLog = Nil
    /\ sends = <<>>
    /\ audio = Nil
    /\ handled = Nil

\* findParticipant has not been called
FindIdle ==
    /\ findArgs = Nil
    /\ findPc = "idle"
    /\ findResult = Nil
    /\ adminResult = FALSE

\* no message reached handleMessageModeration
ModIdle ==
    /\ linkModeration = Null
    /\ modMsg = Nil
    /\ modPc = "idle"
    /\ modMeta = Nil
    /\ deletion = Nil
    /\ modLog = <<>>
    /\ whatsapp_moderation = <<>>

\* no worker received a join event
FleetIdle ==
    /\ redisLocks = {}
    /\ fleet = <<>>

MoreIdle == FindIdle /\ ModIdle /\ FleetIdle

ExtraIdle == RowsIdle /\ RetryIdle /\ WelcomeIdle /\ MoreIdle

WorkerIdle == LoopIdle /\ ConnIdle /\ ExtraIdle

\* the remove flow has not run
RemoveIdle ==
    /\ removeQueue = <<>>
    /\ rpc = "idle"
    /\ ritem = Nil
    /\ ruserJid = Null
    /\ rosters = NoRosters
    /\ rresult = Nil
    /\ rret = "none"
    /\ rhist = <<>>

InitAdd ==
    /\ addQueue \in AddQueues
    /\ whatsapp_authorization \in AuthTables
    /\ group_requests = [r \in RequestIds |-> RequestRow(FALSE, 0)]
    /\ member_groups = <<>>
    /\ now = 0
    /\ config \in DelayConfigs
    /\ pc = "idle"
    /\ item = Nil
    /\ groupJid = Null
    /\ memberPhones = <<>>
    /\ i = 0
    /\ results = Nil
    /\ notAuthorizedNumbers = <<>>
    /\ cur = NoCur
    /\ hist = <<>>
    /\ before = group_requests
    /\ RemoveIdle
    /\ WorkerIdle
    /\ addMode = TRUE
    /\ removeMode = FALSE

\* addTask.ts:469-475: pop the head of addQueue
GetFromAddQueue ==
    /\ pc \in {"idle", "done", "threw"}
    /\ addQueue # <<>>
    /\ item' = Head(addQueue)
    /\ addQueue' = Tail(addQueue)
    /\ now' = now + 1
    /\ groupJid' = asGroupJid(Head(addQueue).group_id)
    /\ pc' = IF asGroupJid(Head(addQueue).group_id) = Null THEN "threw" ELSE "roster"
    /\ memberPhones' = <<>>
    /\ i' = 0
    /\ results' = Nil
    /\ notAuthorizedNumbers' = <<>>
    /\ cur' = NoCur
    /\ hist' = <<>>
    /\ before' = group_requests
    /\ UNCHANGED <<removeVars, workerVars>>
    /\ UNCHANGED <<whatsapp_authorization, group_requests, member_groups, config>>

\* addTask.ts:470-473: nothing queued
AddQueueEmpty ==
    /\ pc \in {"idle", "done", "threw"}
    /\ addQueue = <<>>
    /\ pc' = "idle"
    /\ item' = Nil
    /\ groupJid' = Null
    /\ memberPhones' = <<>>
    /\ i' = 0
    /\ results' = baseResult(0, 0)
    /\ notAuthorizedNumbers' = <<>>
    /\ cur' = NoCur
    /\ hist' = <<>>
    /\ before' = group_requests
    /\ UNCHANGED <<removeVars, workerVars>>
    /\ UNCHANGED <<addQueue, whatsapp_authorization, group_requests, member_groups, now, config>>

\* addTask.ts:483-488 and 496-501: notify, register the attempt, return baseResult(0, 0)
TerminalFailure(kind, h) ==
    \E reasonOk \in BOOLEAN, attemptOk \in BOOLEAN :
        LET n == SafeNotifyFailure(group_requests, h, 0, Reason(kind, <<>>), reasonOk)
            a == SafeRegisterAttempt(n.db, n.hist, attemptOk)
        IN  /\ group_requests' = a.db
            /\ hist' = a.hist
            /\ results' = baseResult(0, 0)
            /\ pc' = "done"

\* addTask.ts:479-489 with safeGroupMetadata (689-693) and checkIfSelfIsAdmin
FetchRoster ==
    /\ pc = "roster"
    /\ \E out \in RosterOutcomes :
        LET h == hist \o <<Ev("groupMetadata", 0, groupJid),
                             Ev("groupMetadata:settled", 0, <<out>>)>>
        IN  IF out.kind # "meta"
            THEN /\ pc' = "threw"
                 /\ hist' = h
                 /\ UNCHANGED <<group_requests, results>>
            ELSE IF checkIfSelfIsAdmin(BotUser, out.meta)
            THEN /\ pc' = "phones"
                 /\ hist' = h
                 /\ UNCHANGED <<group_requests, results>>
            ELSE TerminalFailure("notAdmin", h)
    /\ UNCHANGED <<removeVars, workerVars>>
    /\ UNCHANGED <<addQueue, whatsapp_authorization, member_groups, now, config, item,
                   groupJid, memberPhones, i, notAuthorizedNumbers, cur, before>>

\* addTask.ts:492-512: getMemberPhoneNumbers, which may throw
LoadPhones ==
    /\ pc = "phones"
    /\ \/ /\ pc' = "threw"
          /\ UNCHANGED <<group_requests, hist, results, memberPhones, i>>
       \/ \E phones \in getMemberPhoneNumbers(ToNumber(item.registration_id).n) :
            LET h == Append(hist, Ev("getMemberPhoneNumbers", 0, phones))
            IN  IF Len(phones) = 0
                THEN /\ TerminalFailure("noPhones", h)
                     /\ UNCHANGED <<memberPhones, i>>
                ELSE /\ memberPhones' = phones
                     /\ i' = 1
                     /\ results' = baseResult(0, Len(phones))
                     /\ pc' = "loop"
                     /\ hist' = h
                     /\ UNCHANGED group_requests
    /\ UNCHANGED <<removeVars, workerVars>>
    /\ UNCHANGED <<addQueue, whatsapp_authorization, member_groups, now, config, item,
                   groupJid, notAuthorizedNumbers, cur, before>>

\* an RJB rule that lets every phone through, set against RjbSkips below
RjbSkips_Never(itm, phone) == FALSE

\* addTask.ts:517: RJB groups only admit legal representatives
RjbSkips(itm, phone) == itm.group_type = "RJB" /\ ~phone.is_legal_rep

\* addTask.ts:527: !authorized?.phone_number
IsAuthorized(row) == row # Nil /\ row.phone_number # <<>>

\* a mapping that sends status 409 to the invite fallback, set against MapStatus below
MapStatus_ConflictFallsBack(status) ==
    IF status = Finite(200) THEN "added" ELSE "fallback"

\* addTask.ts:605-613: the outcome of the add call by status code
MapStatus(status) ==
    IF status = Finite(200) THEN "added"
    ELSE IF status = Finite(409) THEN "already_member"
    ELSE "fallback"

\* an attempt loop that takes the same phone again, set against NextPhone
NextPhone_StaysPut(result, h) ==
    /\ hist' = Append(h, Ev("result", i, <<result>>))
    /\ i' = i
    /\ cur' = NoCur
    /\ pc' = "loop"

\* the loop moves to the next phone, leaving result in the history
NextPhone(result, h) ==
    /\ hist' = Append(h, Ev("result", i, <<result>>))
    /\ i' = i + 1
    /\ cur' = NoCur
    /\ pc' = "loop"

\* addTask.ts:515-523: RJB rule and normalizeDigits of the next phone
SelectPhone ==
    /\ pc = "loop"
    /\ i <= Len(memberPhones)
    /\ LET phone == memberPhones[i]
           normalized == normalizeDigits(phone.phone)
       IN  IF RjbSkips(item, phone) THEN NextPhone("rjb", hist)
           ELSE IF normalized = Null THEN NextPhone("nodigits", hist)
           ELSE /\ cur' = [NoCur EXCEPT !.normalized = normalized]
                /\ pc' = "auth"
                /\ UNCHANGED <<hist, i>>
    /\ UNCHANGED <<removeVars, workerVars>>
    /\ UNCHANGED <<addQueue, whatsapp_authorization, group_requests, member_groups, now,
                   config, item, groupJid, memberPhones, results, notAuthorizedNumbers, before>>

\* addTask.ts:525-531: getWhatsappAuthorization (pgsql.ts:197-208), which may
\* throw; without ORDER BY any matching row can be rows[0]
Authorize ==
    /\ pc = "auth"
    /\ LET authKey == SliceLast(cur.normalized, 8)
           rows == AuthorizationRows(whatsapp_authorization, authKey, WorkerId)
           h == Append(hist, Ev("getWhatsappAuthorization", i, authKey))
       IN  \/ /\ pc' = "threw"
              /\ hist' = h
              /\ UNCHANGED <<i, cur, notAuthorizedNumbers>>
           \/ \E authorized \in (IF rows = {} THEN {Nil} ELSE rows) :
                IF IsAuthorized(authorized)
                THEN /\ cur' = [cur EXCEPT !.authorized = authorized]
                     /\ pc' = "add"
                     /\ hist' = h
                     /\ UNCHANGED <<i, notAuthorizedNumbers>>
                ELSE /\ notAuthorizedNumbers' = Append(notAuthorizedNumbers, cur.normalized)
                     /\ NextPhone("unauthorized", h)
    /\ UNCHANGED <<removeVars, workerVars>>
    /\ UNCHANGED <<addQueue, whatsapp_authorization, group_requests, member_groups, now,
                   config, item, groupJid, memberPhones, results, before>>

\* what the caller of withTimeout sees of an outcome: a rejection, whether
\* thrown by the operation or by the timer, is caught by the same catch
Seen(out) == IF out \in Rejections THEN "threw" ELSE out

\* addTask.ts:594-615 and 623-631: phoneToUserJid outside the try, the add
\* call, and the choice between a direct outcome and the invite fallback
AddParticipant ==
    /\ pc = "add"
    /\ LET userJid == phoneToUserJid(cur.authorized.phone_number)
       IN  IF userJid = Null
           THEN /\ pc' = "threw"
                /\ UNCHANGED <<cur, hist>>
           ELSE \E out \in UpdateOutcomes :
                LET h == Append(hist, Ev("groupParticipantsUpdate:add", i, userJid))
                    next == IF out.kind \in Rejections THEN "fallback"
                            ELSE MapStatus(asStatusCode(FirstStatus(out)))
                IN  IF next = "fallback"
                    THEN /\ cur' = [cur EXCEPT !.userJid = userJid, !.out = out]
                         /\ hist' = Append(h, Ev("sendGroupInviteMessage", i, userJid))
                         /\ pc' = "inviteCode"
                    ELSE /\ cur' = [cur EXCEPT !.userJid = userJid, !.out = out,
                                               !.attempt = next]
                         /\ hist' = h
                         /\ pc' = "outcome"
    /\ UNCHANGED <<removeVars, workerVars>>
    /\ UNCHANGED <<addQueue, whatsapp_authorization, group_requests, member_groups, now,
                   config, item, groupJid, memberPhones, i, results, notAuthorizedNumbers,
                   before>>

CodeOutcomes == {"code", "empty"} \cup Rejections
SendOutcomes == {"sent"} \cup Rejections

\* addTask.ts:652-653: invite code for the native invite message
InviteCode ==
    /\ pc = "inviteCode"
    /\ \E out \in CodeOutcomes :
        /\ hist' = Append(hist, Ev("groupInviteCode", i, <<Seen(out)>>))
        /\ pc' = CASE out = "code" -> "sendNative"
                   [] out = "empty" -> "inviteFailed"
                   [] OTHER -> "inviteCodeFallback"
    /\ UNCHANGED <<removeVars, workerVars>>
    /\ UNCHANGED <<addQueue, whatsapp_authorization, group_requests, member_groups, now,
                   config, item, groupJid, memberPhones, i, results, notAuthorizedNumbers,
                   cur, before>>

\* addTask.ts:656-665: the native group invite message
SendNativeInvite ==
    /\ pc = "sendNative"
    /\ \E out \in SendOutcomes :
        /\ hist' = Append(hist, Ev("sendMessage:groupInvite", i, <<Seen(out)>>))
        /\ IF out = "sent"
           THEN /\ cur' = [cur EXCEPT !.attempt = "invited"]
                /\ pc' = "outcome"
           ELSE /\ pc' = "inviteCodeFallback"
                /\ UNCHANGED cur
    /\ UNCHANGED <<removeVars, workerVars>>
    /\ UNCHANGED <<addQueue, whatsapp_authorization, group_requests, member_groups, now,
                   config, item, groupJid, memberPhones, i, results, notAuthorizedNumbers,
                   before>>

\* addTask.ts:672-673: invite code for the plain-text link
InviteCodeFallback ==
    /\ pc = "inviteCodeFallback"
    /\ \E out \in CodeOutcomes :
        /\ hist' = Append(hist, Ev("groupInviteCode", i, <<Seen(out)>>))
        /\ pc' = IF out = "code" THEN "sendText" ELSE "inviteFailed"
    /\ UNCHANGED <<removeVars, workerVars>>
    /\ UNCHANGED <<addQueue, whatsapp_authorization, group_requests, member_groups, now,
                   config, item, groupJid, memberPhones, i, results, notAuthorizedNumbers,
                   cur, before>>

\* addTask.ts:674-684: the invite link as plain text
SendTextInvite ==
    /\ pc = "sendText"
    /\ \E out \in SendOutcomes :
        /\ hist' = Append(hist, Ev("sendMessage:text", i, <<Seen(out)>>))
        /\ IF out = "sent"
           THEN /\ cur' = [cur EXCEPT !.attempt = "invited"]
                /\ pc' = "outcome"
           ELSE /\ pc' = "inviteFailed"
                /\ UNCHANGED cur
    /\ UNCHANGED <<removeVars, workerVars>>
    /\ UNCHANGED <<addQueue, whatsapp_authorization, group_requests, member_groups, now,
                   config, item, groupJid, memberPhones, i, results, notAuthorizedNumbers,
                   before>>

\* addTask.ts:617-622 and 636-640: neither invite went out
InviteFailed ==
    /\ pc = "inviteFailed"
    /\ \E reasonOk \in BOOLEAN :
        LET n == SafeNotifyFailure(group_requests, hist, i, Reason("phone", <<>>), reasonOk)
        IN  /\ group_requests' = n.db
            /\ hist' = n.hist
    /\ cur' = [cur EXCEPT !.attempt = "failed"]
    /\ pc' = "outcome"
    /\ UNCHANGED <<removeVars, workerVars>>
    /\ UNCHANGED <<addQueue, whatsapp_authorization, member_groups, now, config, item,
                   groupJid, memberPhones, i, results, notAuthorizedNumbers, before>>

\* a record rule that leaves out already_member, set against WritesEntry below
WritesEntry_AddedOnly(attempt) == attempt \in {"added", "invited"}

\* addTask.ts:535-554, which attempts get a membership record
WritesEntry(attempt) == attempt \in {"added", "invited", "already_member"}

\* addTask.ts:541 and 548, which attempts are followed by the policy delay
PolicyDelayAfter(attempt) == attempt \in {"added", "invited"}

\* addTask.ts:535-555: record the entry, fold the attempt into results, back off
RecordOutcome ==
    /\ pc = "outcome"
    /\ LET a == cur.attempt
           h == IF WritesEntry(a)
                THEN Append(hist, Ev("recordUserEntryToGroup", i, cur.normalized))
                ELSE hist
           h2 == IF WritesEntry(a) /\ PolicyDelayAfter(a)
                 THEN Append(h, Ev("delaySecs", i, <<"policy">>))
                 ELSE h
       IN  /\ IF WritesEntry(a)
              THEN /\ \E writeOk \in BOOLEAN :
                        member_groups' =
                            IF writeOk
                            THEN recordUserEntryToGroup(member_groups,
                                     ToNumber(item.registration_id).n, cur.normalized,
                                     groupJid, "Active")
                            ELSE member_groups
                   /\ results' = [results EXCEPT
                                    !.added = @ \/ a = "added",
                                    !.inviteSent = @ \/ a = "invited",
                                    !.alreadyInGroup = @ \/ a = "already_member",
                                    !.processedPhones = @ + 1]
              ELSE UNCHANGED <<member_groups, results>>
           /\ IF WritesEntry(a) /\ PolicyDelayAfter(a) /\ PolicyDelayThrows
              THEN /\ pc' = "threw"
                   /\ hist' = Append(h2, Ev("result", i, <<a>>))
                   /\ UNCHANGED <<i, cur>>
              ELSE NextPhone(a, h2)
    /\ UNCHANGED <<removeVars, workerVars>>
    /\ UNCHANGED <<addQueue, whatsapp_authorization, group_requests, now, config, item,
                   groupJid, memberPhones, notAuthorizedNumbers, before>>

\* addTask.ts:558: the request counts as fulfilled
AnySucceeded(res) == res.processedPhones > 0

\* addTask.ts:557-580: registerWhatsappAddFulfilled and registerWhatsappAddAttempt
\* are awaited outside any try, so a failing write throws out of processAddQueue
Finalize ==
    /\ pc = "loop"
    /\ i > Len(memberPhones)
    /\ IF AnySucceeded(results)
       THEN \E writeOk \in BOOLEAN :
            /\ hist' = Append(hist, Ev("registerWhatsappAddFulfilled", 0, <<>>))
            /\ group_requests' =
                IF writeOk
                THEN registerWhatsappAddFulfilled(group_requests, item.request_id, now)
                ELSE group_requests
            /\ pc' = IF writeOk THEN "done" ELSE "threw"
       ELSE \E writeOk \in BOOLEAN, reasonOk \in BOOLEAN :
            LET h == Append(hist, Ev("registerWhatsappAddAttempt", 0, <<>>))
                db == registerWhatsappAddAttempt(group_requests, item.request_id, now)
                n == SafeNotifyFailure(db, h, 0,
                                       Reason("consolidated", notAuthorizedNumbers), reasonOk)
            IN  IF writeOk
                THEN /\ group_requests' = n.db
                     /\ hist' = n.hist
                     /\ pc' = "done"
                ELSE /\ group_requests' = group_requests
                     /\ hist' = h
                     /\ pc' = "threw"
    /\ UNCHANGED <<removeVars, workerVars>>
    /\ UNCHANGED <<addQueue, whatsapp_authorization, member_groups, now, config, item,
                   groupJid, memberPhones, i, results, notAuthorizedNumbers, cur, before>>

NextAdd ==
    \/ GetFromAddQueue
    \/ AddQueueEmpty
    \/ FetchRoster
    \/ LoadPhones
    \/ SelectPhone
    \/ Authorize
    \/ AddParticipant
    \/ InviteCode
    \/ SendNativeInvite
    \/ InviteCodeFallback
    \/ SendTextInvite
    \/ InviteFailed
    \/ RecordOutcome
    \/ Finalize

Spec == InitAdd /\ [][NextAdd]_vars

(***************************************************************************)
(* src/src/core/removeTask.ts                                              *)
(***************************************************************************)
RemoveItem(reg, group, phone, reason, community) ==
    [registration_id |-> reg, groupId |-> group, phone |-> phone, reason |-> reason,
     communityId |-> community]

RemoveQueues ==
    { <<>>,
      <<RemoveItem(<<"7">>, GroupRaw, <<"5", "5">> \o KeyA, "expired", Null)>>,
      <<RemoveItem(<<"7">>, GroupFull, PhoneA, "underage", CommunityRaw)>>,
      <<RemoveItem(<<"7">>, <<>>, PhoneA, "expired", <<>>)>>,
      <<RemoveItem(<<"8">>, GroupRaw, PhoneX, "expired", CommunityRaw),
        RemoveItem(<<"7">>, GroupRaw, PhoneA, "expired", Null)>> }

\* membership rows on file when the process starts
MemberTables ==
    { <<>>,
      recordUserEntryToGroup(
          recordUserEntryToGroup(<<>>, 7, <<"5", "5">> \o KeyA, GroupRaw, "Active"),
          7, <<"5", "5">> \o KeyA, GroupFull, "Active") }

\* an UPDATE that closes only the oldest open row, set against
\* recordUserExitFromGroup below
recordUserExitFromGroup_OldestOnly(rows, phone_number, group_id, reason, t) ==
    LET open == {k \in DOMAIN rows :
                    /\ rows[k].phone_number = phone_number
                    /\ rows[k].group_id = group_id
                    /\ rows[k].exit_date = 0}
    IN  [k \in DOMAIN rows |->
            IF k \in open /\ \A j \in open : k <= j
            THEN [rows[k] EXCEPT !.exit_date = t, !.removal_reason = <<reason>>]
            ELSE rows[k]]

\* UPDATE member_groups SET exit_date = NOW(), removal_reason = $3
\*   WHERE phone_number = $1 AND group_id = $2 AND exit_date IS NULL
recordUserExitFromGroup(rows, phone_number, group_id, reason, t) ==
    [k \in DOMAIN rows |->
        IF rows[k].phone_number = phone_number /\ rows[k].group_id = group_id
              /\ rows[k].exit_date = 0
        THEN [rows[k] EXCEPT !.exit_date = t, !.removal_reason = <<reason>>]
        ELSE rows[k]]

\* a guard that protects superadmins only, set against IsProtected below
IsProtected_SuperadminOnly(participant) == participant.admin = "superadmin"

\* removeTask.ts:155 and 198: participant.admin is truthy
IsProtected(participant) == participant.admin # "none"

\* a reading of the response that takes a void result for a failure, set
\* against tryParticipantsUpdate below
tryParticipantsUpdate_VoidFails(out) ==
    out.kind = "array"
        /\ (asStatusCode(out.status) = Finite(200) \/ asStatusCode(out.status) = Finite(207))

\* a removal call whose catch reports success, set against
\* tryParticipantsUpdate below
tryParticipantsUpdate_CatchSucceeds(out) ==
    IF out.kind \in Rejections THEN TRUE
    ELSE IF out.kind = "array"
    THEN asStatusCode(out.status) = Finite(200) \/ asStatusCode(out.status) = Finite(207)
    ELSE TRUE

\* tryParticipantsUpdate (removeTask.ts:229-246): TRUE when the call counts as a success
tryParticipantsUpdate(out) ==
    IF out.kind \in Rejections THEN FALSE
    ELSE IF out.kind = "array"
    THEN asStatusCode(out.status) = Finite(200) \/ asStatusCode(out.status) = Finite(207)
    ELSE TRUE

RemovalResult(removed, removalType, errorReason) ==
    [removed |-> removed, removalType |-> removalType, errorReason |-> errorReason]

NotRemoved(errorReason) == RemovalResult(FALSE, "null", errorReason)

\* the add flow has not run
AddIdle ==
    /\ addQueue = <<>>
    /\ whatsapp_authorization = {}
    /\ group_requests = [r \in RequestIds |-> RequestRow(FALSE, 0)]
    /\ pc = "idle"
    /\ item = Nil
    /\ groupJid = Null
    /\ memberPhones = <<>>
    /\ i = 0
    /\ results = Nil
    /\ notAuthorizedNumbers = <<>>
    /\ cur = NoCur
    /\ hist = <<>>
    /\ before = group_requests

InitRemove ==
    /\ removeQueue \in RemoveQueues
    /\ member_groups \in MemberTables
    /\ now = 0
    /\ config \in DelayConfigs
    /\ rpc = "idle"
    /\ ritem = Nil
    /\ ruserJid = Null
    /\ rosters = NoRosters
    /\ rresult = Nil
    /\ rret = "none"
    /\ rhist = <<>>
    /\ AddIdle
    /\ WorkerIdle
    /\ addMode = FALSE
    /\ removeMode = TRUE

\* removeTask.ts:74-88 and 139-142: pop the head of removeQueue; phoneToUserJid
\* runs outside the try of removeMemberFromGroup
GetFromRemoveQueue ==
    /\ rpc \in {"idle", "returned", "threw"}
    /\ removeQueue # <<>>
    /\ ritem' = Head(removeQueue)
    /\ removeQueue' = Tail(removeQueue)
    /\ now' = now + 1
    /\ ruserJid' = phoneToUserJid(Head(removeQueue).phone)
    /\ rpc' = IF phoneToUserJid(Head(removeQueue).phone) = Null THEN "threw"
              ELSE IF Head(removeQueue).communityId \in {Null, <<>>} THEN "group"
              ELSE "community"
    /\ rosters' = NoRosters
    /\ rresult' = Nil
    /\ rret' = "none"
    /\ rhist' = <<>>
    /\ UNCHANGED <<member_groups, config>>
    /\ UNCHANGED <<addVars, workerVars>>

\* removeTask.ts:75-78: nothing queued
RemoveQueueEmpty ==
    /\ rpc \in {"idle", "returned", "threw"}
    /\ removeQueue = <<>>
    /\ rpc' = "idle"
    /\ ritem' = Nil
    /\ ruserJid' = Null
    /\ rosters' = NoRosters
    /\ rresult' = Nil
    /\ rret' = "false"
    /\ rhist' = <<>>
    /\ UNCHANGED <<removeQueue, member_groups, now, config>>
    /\ UNCHANGED <<addVars, workerVars>>

\* removeMemberFromGroup returns result to processRemoveQueue
ReturnResult(result, h) ==
    /\ rresult' = result
    /\ rhist' = h
    /\ rpc' = "conclude"

\* removeTask.ts:142-159: community roster, participant lookup, admin protection
CommunityRoster ==
    /\ rpc = "community"
    /\ LET communityJid == asGroupJid(ritem.communityId)
           h == Append(rhist, Ev("groupMetadata", 0, communityJid))
       IN  \E out \in RosterOutcomes :
            IF out.kind \in Rejections
            THEN /\ ReturnResult(NotRemoved("exception"), h)
                 /\ UNCHANGED rosters
            ELSE IF out.kind = "none"
            THEN /\ ReturnResult(NotRemoved("communityNotFound"), h)
                 /\ UNCHANGED rosters
            ELSE LET participant == findParticipant(out.meta, ruserJid, Null)
                 IN  /\ rosters' = [rosters EXCEPT !.community = out.meta]
                     /\ IF participant = Nil
                        THEN ReturnResult(NotRemoved("notInCommunity"), h)
                        ELSE IF IsProtected(participant)
                        THEN ReturnResult(NotRemoved("adminInCommunity"), h)
                        ELSE /\ rpc' = "communityRemove"
                             /\ rhist' = h
                             /\ UNCHANGED rresult
    /\ UNCHANGED <<removeQueue, ritem, ruserJid, rret>>
    /\ UNCHANGED sharedVars
    /\ UNCHANGED <<addVars, workerVars>>

\* removeTask.ts:160-178: the removal call against the community
CommunityRemove ==
    /\ rpc = "communityRemove"
    /\ LET communityJid == asGroupJid(ritem.communityId)
           h == Append(rhist, Ev("groupParticipantsUpdate:remove", 0, communityJid))
       IN  \E out \in RemoveUpdateOutcomes :
            LET h2 == Append(h, Ev("groupParticipantsUpdate:settled", 0, <<out>>))
            IN  IF tryParticipantsUpdate(out)
                THEN ReturnResult(RemovalResult(TRUE, "Community", ""), h2)
                ELSE ReturnResult(NotRemoved("communityUpdateFailed"), h2)
    /\ UNCHANGED <<removeQueue, ritem, ruserJid, rosters, rret>>
    /\ UNCHANGED sharedVars
    /\ UNCHANGED <<addVars, workerVars>>

\* removeTask.ts:183-202: group roster, participant lookup, admin protection;
\* asGroupJid throws inside the try for an empty group id
GroupRoster ==
    /\ rpc = "group"
    /\ LET groupJidR == asGroupJid(ritem.groupId)
           h == Append(rhist, Ev("groupMetadata", 0, groupJidR))
       IN  IF groupJidR = Null
           THEN /\ ReturnResult(NotRemoved("exception"), rhist)
                /\ UNCHANGED rosters
           ELSE \E out \in RosterOutcomes :
                IF out.kind \in Rejections
                THEN /\ ReturnResult(NotRemoved("exception"), h)
                     /\ UNCHANGED rosters
                ELSE IF out.kind = "none"
                THEN /\ ReturnResult(NotRemoved("groupNotFound"), h)
                     /\ UNCHANGED rosters
                ELSE LET participant == findParticipant(out.meta, ruserJid, Null)
                     IN  /\ rosters' = [rosters EXCEPT !.group = out.meta]
                         /\ IF participant = Nil
                            THEN ReturnResult(NotRemoved("notInGroup"), h)
                            ELSE IF IsProtected(participant)
                            THEN ReturnResult(NotRemoved("adminInGroup"), h)
                            ELSE /\ rpc' = "groupRemove"
                                 /\ rhist' = h
                                 /\ UNCHANGED rresult
    /\ UNCHANGED <<removeQueue, ritem, ruserJid, rret>>
    /\ UNCHANGED sharedVars
    /\ UNCHANGED <<addVars, workerVars>>

\* removeTask.ts:204-215: the removal call against the group
GroupRemove ==
    /\ rpc = "groupRemove"
    /\ LET groupJidR == asGroupJid(ritem.groupId)
           h == Append(rhist, Ev("groupParticipantsUpdate:remove", 0, groupJidR))
       IN  \E out \in RemoveUpdateOutcomes :
            LET h2 == Append(h, Ev("groupParticipantsUpdate:settled", 0, <<out>>))
            IN  IF tryParticipantsUpdate(out)
                THEN ReturnResult(RemovalResult(TRUE, "Group", ""), h2)
                ELSE ReturnResult(NotRemoved("groupUpdateFailed"), h2)
    /\ UNCHANGED <<removeQueue, ritem, ruserJid, rosters, rret>>
    /\ UNCHANGED sharedVars
    /\ UNCHANGED <<addVars, workerVars>>

\* a test that only sees community removals, set against RemovalSucceeded below
RemovalSucceeded_CommunityOnly(result) ==
    result.removed /\ result.removalType = "Community"

\* removeTask.ts:90 and 99: the result counts as a removal
RemovalSucceeded(result) ==
    result.removed /\ result.removalType \in {"Community", "Group"}

\* outcomes of notifyRemovalFailure: it resolves or it throws
NotifyOutcomes == {"sent", "threw"}

\* removeTask.ts:90-127: exit record and backoff after a removal, failure
\* notification otherwise; safeRecordExit and the notification swallow errors
Conclude ==
    /\ rpc = "conclude"
    /\ IF RemovalSucceeded(rresult)
       THEN LET key == IF rresult.removalType = "Community" THEN ritem.communityId
                       ELSE ritem.groupId
                h == rhist \o <<Ev("recordUserExitFromGroup", 0,
                                   [phone_number |-> ritem.phone, group_id |-> key,
                                    reason |-> ritem.reason]),
                                Ev("delaySecs", 0, <<"policy">>)>>
            IN  /\ \E writeOk \in BOOLEAN :
                    member_groups' =
                        IF writeOk
                        THEN recordUserExitFromGroup(member_groups, ritem.phone, key,
                                                     ritem.reason, now)
                        ELSE member_groups
                /\ rhist' = h
                /\ IF PolicyDelayThrows
                   THEN rpc' = "threw" /\ rret' = "none"
                   ELSE rpc' = "returned" /\ rret' = "true"
       ELSE /\ \E outcome \in NotifyOutcomes :
                    rhist' = Append(rhist, Ev("notifyRemovalFailure", 0,
                                              [removalReason |-> ritem.reason,
                                               failureReason |-> rresult.errorReason,
                                               outcome |-> outcome]))
            /\ rpc' = "returned"
            /\ rret' = "false"
            /\ UNCHANGED member_groups
    /\ UNCHANGED <<removeQueue, ritem, ruserJid, rosters, rresult, now, config>>
    /\ UNCHANGED <<addVars, workerVars>>

NextRemove ==
    \/ GetFromRemoveQueue
    \/ RemoveQueueEmpty
    \/ CommunityRoster
    \/ CommunityRemove
    \/ GroupRoster
    \/ GroupRemove
    \/ Conclude

SpecRemove == InitRemove /\ [][NextRemove]_vars

(***************************************************************************)
(* Observations used by the properties                                     *)
(***************************************************************************)
Successes == {"added", "invited", "already_member"}

HasResult(idx) == \E k \in 1..Len(hist) : hist[k].op = "result" /\ hist[k].idx = idx

ResultOf(idx) ==
    hist[CHOOSE k \in 1..Len(hist) : hist[k].op = "result" /\ hist[k].idx = idx].arg[1]

Succeeded(idx) == HasResult(idx) /\ ResultOf(idx) \in Successes

\* add-participant calls, invite fallbacks and direct messages issued for phone idx
ContactCalls(idx) ==
    Calls("groupParticipantsUpdate:add", idx) + Calls("sendGroupInviteMessage", idx)
        + Calls("sendMessage:groupInvite", idx) + Calls("sendMessage:text", idx)

PhoneIndexes == 1..Len(memberPhones)

\* the current Add work item has been left, by return or by exception
AddItemEnded == item # Nil /\ pc \in {"done", "threw"}

RemoveCallsAgainst(jid) ==
    Cardinality({k \in 1..Len(rhist) :
                    rhist[k].op = "groupParticipantsUpdate:remove" /\ rhist[k].arg = jid})

\* the roster fetched for scope matches the target to an admin or superadmin
TargetIsAdminIn(scope) ==
    /\ rosters[scope] # Nil
    /\ LET p == findParticipant(rosters[scope], ruserJid, Null)
       IN  p # Nil /\ p.admin \in {"admin", "superadmin"}

ScopeJid(scope) ==
    IF scope = "community" THEN asGroupJid(ritem.communityId) ELSE asGroupJid(ritem.groupId)

(***************************************************************************)
(* Properties                                                              *)
(***************************************************************************)
\* C1: admin protection in the remove flow. Whenever the roster fetched for
\* the community or for the group matches the target to a participant with
\* role admin or superadmin, no remove call has been issued against that
\* community or group, and the result of removeMemberFromGroup is removed = false.
C1_AdminProtection ==
    \A scope \in {"community", "group"} :
        TargetIsAdminIn(scope) =>
            /\ RemoveCallsAgainst(ScopeJid(scope)) = 0
            /\ rresult # Nil => ~rresult.removed
            /\ rret # "true"

\* C1 witness: a Remove work item whose community roster lists the target as
\* admin has been processed to the end
C1_Witness ==
    /\ rpc = "returned"
    /\ TargetIsAdminIn("community")
    /\ rresult.errorReason = "adminInCommunity"

\* C2 as claimed: for every Add work item that was popped (with a valid group
\* id) and left, the fulfilled write was issued if and only if some phone
\* ended added, invited or already_member; otherwise the attempt write was
\* issued exactly once and fulfilled was not touched.
C2_FulfilledIffSuccess ==
    (AddItemEnded /\ groupJid # Null) =>
        IF \E idx \in PhoneIndexes : Succeeded(idx)
        THEN CallsOf("registerWhatsappAddFulfilled") = 1
        ELSE /\ CallsOf("registerWhatsappAddFulfilled") = 0
             /\ CallsOf("registerWhatsappAddAttempt") = 1
             /\ group_requests[item.request_id].fulfilled = before[item.request_id].fulfilled

Is200(out) ==
    /\ out.kind = "array"
    /\ out.status \in {StatusNumber(200), StatusString(<<"2", "0", "0">>)}

Is409(out) ==
    /\ out.kind = "array"
    /\ out.status \in {StatusNumber(409), StatusString(<<"4", "0", "9">>)}

\* C3: status mapping of addMemberToGroup. When addMemberToGroup has returned
\* for the current phone: a response with status 200 gave added and one with
\* status 409 gave already_member, both without any invite; every other
\* response (other status, missing status, void or empty result, exception,
\* timeout) led to exactly one invocation of sendGroupInviteMessage. No phone
\* ever has more than one invocation.
C3_StatusMapping ==
    /\ \A idx \in PhoneIndexes : Calls("sendGroupInviteMessage", idx) <= 1
    /\ pc = "outcome" =>
        /\ Calls("groupParticipantsUpdate:add", i) = 1
        /\ Is200(cur.out) =>
            cur.attempt = "added" /\ Calls("sendGroupInviteMessage", i) = 0
        /\ Is409(cur.out) =>
            cur.attempt = "already_member" /\ Calls("sendGroupInviteMessage", i) = 0
        /\ (~Is200(cur.out) /\ ~Is409(cur.out)) =>
            /\ cur.attempt \in {"invited", "failed"}
            /\ Calls("sendGroupInviteMessage", i) = 1

\* C3 witness: the add call timed out and the single invite fallback failed too
C3_Witness ==
    /\ pc = "outcome"
    /\ cur.out.kind = "timeout"
    /\ cur.attempt = "failed"
    /\ Calls("sendGroupInviteMessage", i) = 1

\* an authorization record exists for (last 8 digits of phone idx, this worker)
HasAuthorizationRecord(idx) ==
    \E row \in whatsapp_authorization :
        /\ row.worker_id = WorkerId
        /\ SliceLast(row.phone_number, 8)
             = SliceLast(StripNonDigits(memberPhones[idx].phone), 8)

\* C4: authorization gate. A phone of the work item has an add-participant
\* call, an invite fallback or a direct message only if the authorization
\* lookup ran for it and table whatsapp_authorization holds a record for the
\* last 8 digits of that phone and this worker; a phone without such a record
\* has no such call, no membership record write, does not end as a success
\* and processedPhones counts exactly the phones that succeeded.
C4_AuthorizationGate ==
    /\ \A idx \in PhoneIndexes :
        /\ ContactCalls(idx) > 0 =>
            /\ HasAuthorizationRecord(idx)
            /\ Calls("getWhatsappAuthorization", idx) = 1
        /\ ~HasAuthorizationRecord(idx) =>
            /\ ContactCalls(idx) = 0
            /\ Calls("recordUserEntryToGroup", idx) = 0
            /\ ~Succeeded(idx)
    /\ (results # Nil /\ pc # "outcome") =>
        results.processedPhones = Cardinality({idx \in PhoneIndexes : Succeeded(idx)})

\* C4 witness: one phone of the item was skipped for lack of an authorization
\* record while another phone of the same item was contacted
C4_Witness ==
    /\ pc = "done"
    /\ \E idx \in PhoneIndexes :
        /\ HasResult(idx) /\ ResultOf(idx) = "unauthorized"
        /\ ~HasAuthorizationRecord(idx)
    /\ \E idx \in PhoneIndexes : Calls("groupParticipantsUpdate:add", idx) = 1

\* C5: RJB filter. In a work item with group_type "RJB", a phone that is not
\* flagged is_legal_rep has no authorization lookup, no add-participant call,
\* no invite or direct message and no membership record write, and it never
\* ends as a success (so it is not counted in processedPhones).
C5_RjbFilter ==
    (item # Nil /\ item.group_type = "RJB") =>
        \A idx \in PhoneIndexes :
            ~memberPhones[idx].is_legal_rep =>
                /\ Calls("getWhatsappAuthorization", idx) = 0
                /\ ContactCalls(idx) = 0
                /\ Calls("recordUserEntryToGroup", idx) = 0
                /\ HasResult(idx) => ResultOf(idx) = "rjb"
                /\ results.processedPhones
                     <= Cardinality({j \in PhoneIndexes : j # idx /\ HasResult(j)})

\* C5 witness: an RJB work item ended fulfilled with one phone skipped by the
\* RJB rule and a legal representative's phone added
C5_Witness ==
    /\ pc = "done"
    /\ item.group_type = "RJB"
    /\ \E idx \in PhoneIndexes : ~memberPhones[idx].is_legal_rep /\ ResultOf(idx) = "rjb"
    /\ \E idx \in PhoneIndexes : HasResult(idx) /\ ResultOf(idx) = "added"

SameLast8(a, b) ==
    /\ StripNonDigits(memberPhones[a].phone) # <<>>
    /\ SliceLast(StripNonDigits(memberPhones[a].phone), 8)
         = SliceLast(StripNonDigits(memberPhones[b].phone), 8)

\* C6 as claimed: dedup by last 8 digits. Of two phones of one work item that
\* share their last 8 digits, the later one is never attempted.
C6_DedupByLast8 ==
    \A a \in PhoneIndexes, b \in PhoneIndexes :
        (a < b /\ SameLast8(a, b)) => Calls("groupParticipantsUpdate:add", b) = 0

\* group_requests without its timestamp columns
WithoutTimes(db) ==
    [r \in DOMAIN db |->
        [fulfilled |-> db[r].fulfilled, no_of_attempts |-> db[r].no_of_attempts,
         failure_reason |-> db[r].failure_reason]]

\* C7: fulfilled is a one-way latch. No step of the add flow takes fulfilled
\* of any request from true to false, and the fulfilled write of a finalize
\* step on a request that is already fulfilled changes nothing but timestamps.
C7_FulfilledLatch ==
    [][/\ \A r \in RequestIds : group_requests[r].fulfilled => group_requests'[r].fulfilled
       /\ (/\ CallsOf("registerWhatsappAddFulfilled")' = 1
           /\ CallsOf("registerWhatsappAddFulfilled") = 0
           /\ group_requests[item.request_id].fulfilled)
            => WithoutTimes(group_requests') = WithoutTimes(group_requests)]_vars

\* C7 witness: a request that was already fulfilled when the work item was
\* popped has been finalized as fulfilled again
C7_Witness ==
    /\ pc = "done"
    /\ before[item.request_id].fulfilled
    /\ CallsOf("registerWhatsappAddFulfilled") = 1
    /\ group_requests[item.request_id].last_attempt > before[item.request_id].last_attempt

RosterUnresolved ==
    \E k \in 1..Len(hist) :
        hist[k].op = "groupMetadata:settled" /\ hist[k].arg[1].kind # "meta"

\* C8 as claimed: when the roster fetch threw, timed out or returned nothing,
\* the work item ends with a failure notification issued and the attempt
\* write issued, without a fulfilled write.
C8_RosterNotFound ==
    (AddItemEnded /\ RosterUnresolved) =>
        /\ pc = "done"
        /\ CallsOf("sendAdditionFailedReason") = 1
        /\ CallsOf("registerWhatsappAddAttempt") = 1
        /\ CallsOf("registerWhatsappAddFulfilled") = 0

\* the roster was fetched and the bot is not matched to an admin in it
BotNotAdminInRoster ==
    \E k \in 1..Len(hist) :
        /\ hist[k].op = "groupMetadata:settled"
        /\ hist[k].arg[1].kind = "meta"
        /\ ~isParticipantAdmin(hist[k].arg[1].meta, BotUser.id, BotUser.phoneNumber)

\* the phone lookup returned an empty list for the registration
NoMemberPhones ==
    \E k \in 1..Len(hist) : hist[k].op = "getMemberPhoneNumbers" /\ hist[k].arg = <<>>

\* the current work item met one of the two terminal conditions
EndedBeforeLoop == item # Nil /\ (BotNotAdminInRoster \/ NoMemberPhones)

C10_RecordPerSuccess ==
    /\ \A idx \in PhoneIndexes :
        Calls("recordUserEntryToGroup", idx) = IF Succeeded(idx) THEN 1 ELSE 0
    /\ CallsOf("recordUserEntryToGroup") = Cardinality({idx \in PhoneIndexes : Succeeded(idx)})
    /\ \A k \in 1..Len(member_groups) : member_groups[k].status = "Active"

\* C10 witness: one phone of the item ended already_member with its record
\* written, another ended failed without one
C10_Witness ==
    /\ pc = "done"
    /\ \E idx \in PhoneIndexes :
        ResultOf(idx) = "already_member" /\ Calls("recordUserEntryToGroup", idx) = 1
    /\ \E idx \in PhoneIndexes :
        ResultOf(idx) = "failed" /\ Calls("recordUserEntryToGroup", idx) = 0

\* the persistence writes of the add flow
PersistenceWrites ==
    {"recordUserEntryToGroup", "registerWhatsappAddFulfilled", "registerWhatsappAddAttempt",
     "sendAdditionFailedReason"}

\* C11 as claimed: no persistence write propagates. A work item that was left
\* by exception was never left at a persistence write: the last call it
\* issued is not one of recordUserEntryToGroup, registerWhatsappAddFulfilled,
\* registerWhatsappAddAttempt and sendAdditionFailedReason.
C11_PersistenceNeverPropagates ==
    (pc = "threw" /\ hist # <<>>) => hist[Len(hist)].op \notin PersistenceWrites

\* number of calls op issued for the current Remove work item
RCallsOf(op) == Cardinality({k \in 1..Len(rhist) : rhist[k].op = op})

\* the current Remove work item has been left, by return or by exception
RemoveItemEnded == ritem # Nil /\ rpc \in {"returned", "threw"}

\* the work item names a community (communityId is truthy)
CommunityGiven == ritem # Nil /\ ritem.communityId \notin {Null, <<>>}

\* positions of rhist where the roster of jid was requested
RosterRequests(jid) ==
    {k \in 1..Len(rhist) : rhist[k].op = "groupMetadata" /\ rhist[k].arg = jid}

\* positions of rhist where the removal call was issued against jid
RemoveRequests(jid) ==
    {k \in 1..Len(rhist) :
        rhist[k].op = "groupParticipantsUpdate:remove" /\ rhist[k].arg = jid}

\* the target is a participant of meta without an admin role
TargetIsPlainMemberOf(meta) ==
    LET p == findParticipant(meta, ruserJid, Null)
    IN  p # Nil /\ p.admin \notin {"admin", "superadmin"}

\* C12 as claimed: fall-through to the group. When the work item names a
\* community and the target is no participant of the community roster, the
\* group roster is resolved, and the removal call is issued against the group
\* if the target is a non-admin participant there.
C12_FallThroughToGroup ==
    (/\ RemoveItemEnded
     /\ CommunityGiven
     /\ rosters.community # Nil
     /\ findParticipant(rosters.community, ruserJid, Null) = Nil)
        => /\ RosterRequests(asGroupJid(ritem.groupId)) # {}
           /\ (rosters.group # Nil /\ TargetIsPlainMemberOf(rosters.group))
                => RemoveRequests(asGroupJid(ritem.groupId)) # {}

\* C13 as claimed: community first, then group. For a work item naming a
\* community, no removal call against the group precedes the community
\* roster lookup, and once the removal call was issued against the community
\* the group is attempted afterwards (its roster is requested).
C13_CommunityThenGroup ==
    (RemoveItemEnded /\ CommunityGiven /\ ruserJid # Null) =>
        /\ \A k \in RemoveRequests(asGroupJid(ritem.groupId)) :
              \E j \in RosterRequests(asGroupJid(ritem.communityId)) : j < k
        /\ \A k \in RemoveRequests(asGroupJid(ritem.communityId)) :
              \E j \in RosterRequests(asGroupJid(ritem.groupId)) : k < j

\* the exit-record writes issued for the current Remove work item
ExitRecords ==
    {k \in 1..Len(rhist) : rhist[k].op = "recordUserExitFromGroup"}

\* the answer of a removal call that reports the removal as done: status 200
\* or 207, or no status list at all
ReportsRemoval(out) ==
    \/ out.kind \in {"void", "empty"}
    \/ /\ out.kind = "array"
       /\ out.status \in {StatusNumber(200), StatusNumber(207), StatusString(<<"2", "0", "0">>)}

\* the case of C14: a community is named, the target is a non-admin
\* participant of its roster and the community removal call succeeded
CommunityRemovalDone ==
    /\ RemoveItemEnded
    /\ CommunityGiven
    /\ rosters.community # Nil
    /\ TargetIsPlainMemberOf(rosters.community)
    /\ \E k \in 1..Len(rhist) :
          rhist[k].op = "groupParticipantsUpdate:settled" /\ ReportsRemoval(rhist[k].arg[1])

\* what C14 promises of such a work item
CommunityRemovalOutcome ==
    /\ rpc = "returned"
    /\ rret = "true"
    /\ rresult = RemovalResult(TRUE, "Community", "")
    /\ Cardinality(ExitRecords) = 1
    /\ \A k \in ExitRecords :
          /\ rhist[k].arg.reason = ritem.reason
          /\ rhist[k].arg.group_id = ritem.communityId
          /\ rhist[k].arg.phone_number = ritem.phone
          /\ k < Len(rhist) /\ rhist[k + 1].op = "delaySecs"
    /\ RCallsOf("delaySecs") = 1
    /\ RCallsOf("notifyRemovalFailure") = 0
    /\ RemoveRequests(asGroupJid(ritem.groupId)) = {}

FailureNotices ==
    {k \in 1..Len(rhist) : rhist[k].op = "notifyRemovalFailure"}

\* the two endings C15 allows
RemovePaths ==
    /\ rresult # Nil
    /\ rpc = "returned"
    /\ IF rresult.removed
       THEN /\ Cardinality(ExitRecords) = 1
            /\ RCallsOf("delaySecs") = 1
            /\ FailureNotices = {}
            /\ rret = "true"
       ELSE /\ Cardinality(FailureNotices) = 1
            /\ \A k \in FailureNotices :
                  /\ rhist[k].arg.removalReason = ritem.reason
                  /\ rhist[k].arg.failureReason = rresult.errorReason
                  /\ rresult.errorReason # ""
            /\ ExitRecords = {}
            /\ RCallsOf("delaySecs") = 0
            /\ rret = "false"

MaxQueued == 2

MaxOrphans == 2

\* if (removeMode) { ... } and what follows it (index.ts:121-135)
RemoveStage == IF removeMode THEN "remove:pop" ELSE "ping"

\* if (addMode) { ... } (index.ts:116-119)
AddStage == IF addMode THEN "add:pop" ELSE RemoveStage

\* the awaits of the two flows that go through withTimeout
\* (addTask.ts:600, 652, 663, 672, 676, 690; removeTask.ts:225, 236)
CallSites ==
    {"add:groupMetadata", "add:groupParticipantsUpdate", "add:groupInviteCode",
     "add:sendMessage", "add:groupInviteCode:fallback", "add:sendMessage:text",
     "remove:groupMetadata", "remove:groupParticipantsUpdate"}

\* after a phone of the Add work item: the next phone, or finalize and return
AfterPhone == {"add:groupParticipantsUpdate", "add:loopDelay"}

\* where the flow goes when the bounded call at pos hands back outcome
\* ("result", "error" or "timeout")
AfterCall(pos, outcome) ==
    CASE pos = "add:groupMetadata" ->
           \* addTask.ts:479-502: awaited outside any try; not admin or no
           \* phones returns, otherwise the per-phone loop starts
           IF outcome = "result" THEN {"add:groupParticipantsUpdate", "add:loopDelay"}
           ELSE {"catch"}
      [] pos = "add:groupParticipantsUpdate" ->
           \* addTask.ts:600-641 and 535-554: 200 -> backoff; 409 -> no
           \* backoff; anything else and every exception -> invite
           IF outcome = "result"
           THEN {"add:policyDelay", "add:groupInviteCode"} \cup AfterPhone
           ELSE {"add:groupInviteCode"}
      [] pos = "add:groupInviteCode" ->
           \* addTask.ts:650-668
           IF outcome = "result" THEN {"add:sendMessage"}
           ELSE {"add:groupInviteCode:fallback"}
      [] pos = "add:sendMessage" ->
           IF outcome = "result" THEN {"add:policyDelay"}
           ELSE {"add:groupInviteCode:fallback"}
      [] pos = "add:groupInviteCode:fallback" ->
           \* addTask.ts:670-684
           IF outcome = "result" THEN {"add:sendMessage:text"} ELSE AfterPhone
      [] pos = "add:sendMessage:text" ->
           IF outcome = "result" THEN {"add:policyDelay"} ELSE AfterPhone
      [] pos = "remove:groupMetadata" ->
           \* removeTask.ts:144-201: target missing or admin returns
           IF outcome = "result" THEN {"remove:groupParticipantsUpdate", "remove:loopDelay"}
           ELSE {"remove:loopDelay"}
      [] pos = "remove:groupParticipantsUpdate" ->
           \* removeTask.ts:90-127
           IF outcome = "result" THEN {"remove:policyDelay", "remove:loopDelay"}
           ELSE {"remove:loopDelay"}

\* a withTimeout whose timer is ignored, set against Race below
Race_WithoutTimer(p, timer) ==
    CASE p = "resolved" -> "result"
      [] p = "rejected" -> "error"
      [] OTHER -> "pending"

\* addTask.ts:446-457, removeTask.ts:50-61: Promise.race([p, timeout]) settles
\* as the first of the operation and the timer
Race(p, timer) ==
    CASE p = "resolved" -> "result"
      [] p = "rejected" -> "error"
      [] timer = "fired" -> "timeout"
      [] OTHER -> "pending"

InitLoop ==
    /\ addMode \in BOOLEAN
    /\ removeMode \in BOOLEAN
    /\ lpc = "top"
    /\ queued \in [{"add", "remove"} -> 0..MaxQueued]
    /\ call = "none"
    /\ lastCall = "none"
    /\ orphans = 0
    /\ iter = NoPops
    /\ delayed = FALSE
    /\ gap = "start"
    /\ orphansAtPop = 0
    /\ config \in DelayConfigs
    /\ member_groups = <<>>
    /\ now = 0
    /\ AddIdle
    /\ RemoveIdle
    /\ ConnIdle
    /\ ExtraIdle

\* what lay between the pop that happens now and the one before it
GapNow == IF gap = "start" THEN "first" ELSE IF delayed THEN "backoff" ELSE "none"

\* lPop of the queue q (redis.ts:91-104), as seen by mainLoop
Popped(q) ==
    /\ iter' = [iter EXCEPT ![q] = @ + 1]
    /\ gap' = GapNow
    /\ delayed' = FALSE
    /\ orphansAtPop' = orphans

\* index.ts:114-115: while (true) { try {
Iterate ==
    /\ lpc = "top"
    /\ lpc' = AddStage
    /\ iter' = NoPops
    /\ UNCHANGED <<addMode, removeMode, queued, call, lastCall, orphans, delayed, gap,
                   orphansAtPop>>
    /\ UNCHANGED <<sharedVars, addVars, removeVars, connVars, extraVars>>

\* index.ts:117 and addTask.ts:469-473: processAddQueue pops; an empty queue
\* returns at once
LoopPopAdd ==
    /\ lpc = "add:pop"
    /\ Popped("add")
    /\ IF queued.add = 0
       THEN lpc' = "add:loopDelay" /\ queued' = queued
       ELSE lpc' = "add:groupMetadata" /\ queued' = [queued EXCEPT !.add = @ - 1]
    /\ UNCHANGED <<addMode, removeMode, call, lastCall, orphans>>
    /\ UNCHANGED <<sharedVars, addVars, removeVars, connVars, extraVars>>

\* index.ts:122 and removeTask.ts:74-88, 139: processRemoveQueue pops; an
\* empty queue returns at once, a phone without digits throws
LoopPopRemove ==
    /\ lpc = "remove:pop"
    /\ Popped("remove")
    /\ IF queued.remove = 0
       THEN lpc' = "remove:loopDelay" /\ queued' = queued
       ELSE /\ lpc' \in {"remove:groupMetadata", "catch"}
            /\ queued' = [queued EXCEPT !.remove = @ - 1]
    /\ UNCHANGED <<addMode, removeMode, call, lastCall, orphans>>
    /\ UNCHANGED <<sharedVars, addVars, removeVars, connVars, extraVars>>

\* withTimeout(sock.<operation>(..)): the operation is started and the timer
\* armed
StartCall ==
    /\ lpc \in CallSites
    /\ call = "none"
    /\ call' = "awaiting"
    /\ UNCHANGED <<addMode, removeMode, lpc, queued, lastCall, orphans, iter, delayed, gap,
                   orphansAtPop>>
    /\ UNCHANGED <<sharedVars, addVars, removeVars, connVars, extraVars>>

\* the awaited operation resolves or rejects before the timer; finally
\* clears the timer and the flow goes on
OperationSettles ==
    /\ call = "awaiting"
    /\ \E p \in {"resolved", "rejected"} :
          /\ lastCall' = Race(p, "armed")
          /\ lpc' \in AfterCall(lpc, Race(p, "armed"))
    /\ call' = "none"
    /\ UNCHANGED <<addMode, removeMode, queued, orphans, iter, delayed, gap, orphansAtPop>>
    /\ UNCHANGED <<sharedVars, addVars, removeVars, connVars, extraVars>>

\* the timer fires while the operation is pending: the wrapper rejects with
\* the timeout error, the flow goes on and the operation stays in flight
TimerFires ==
    /\ call = "awaiting"
    /\ Race("pending", "fired") # "pending"
    /\ lastCall' = Race("pending", "fired")
    /\ lpc' \in AfterCall(lpc, Race("pending", "fired"))
    /\ call' = "none"
    /\ orphans' = IF orphans < MaxOrphans THEN orphans + 1 ELSE orphans
    /\ UNCHANGED <<addMode, removeMode, queued, iter, delayed, gap, orphansAtPop>>
    /\ UNCHANGED <<sharedVars, addVars, removeVars, connVars, extraVars>>

\* an operation whose wrapper timed out settles at last; nobody awaits it
OrphanSettles ==
    /\ orphans > 0
    /\ orphans' \in (IF orphans = MaxOrphans THEN {orphans - 1, orphans} ELSE {orphans - 1})
    /\ orphans' # orphans \/ call = "awaiting"
    /\ UNCHANGED <<addMode, removeMode, lpc, queued, call, lastCall, iter, delayed, gap,
                   orphansAtPop>>
    /\ UNCHANGED <<sharedVars, addVars, removeVars, connVars, extraVars>>

\* addTask.ts:535-548 and removeTask.ts:102: delaySecs(MIN_DELAY, MAX_DELAY,
\* DELAY_JITTER), which throws on an invalid window
PolicyDelay ==
    /\ lpc \in {"add:policyDelay", "remove:policyDelay"}
    /\ IF PolicyDelayThrows
       THEN lpc' = "catch" /\ delayed' = delayed
       ELSE /\ delayed' = TRUE
            /\ lpc' \in (IF lpc = "add:policyDelay" THEN AfterPhone ELSE {"remove:loopDelay"})
    /\ UNCHANGED <<addMode, removeMode, queued, call, lastCall, orphans, iter, gap,
                   orphansAtPop>>
    /\ UNCHANGED <<sharedVars, addVars, removeVars, connVars, extraVars>>

\* index.ts:118 and 123: await delaySecs(7, 13, 3) after the flow returned
LoopDelay ==
    /\ lpc \in {"add:loopDelay", "remove:loopDelay"}
    /\ delayed' = TRUE
    /\ lpc' = IF lpc = "add:loopDelay" THEN RemoveStage ELSE "ping"
    /\ UNCHANGED <<addMode, removeMode, queued, call, lastCall, orphans, iter, gap,
                   orphansAtPop>>
    /\ UNCHANGED <<sharedVars, addVars, removeVars, connVars, extraVars>>

\* index.ts:126-139: the uptime ping in its own try/catch, then the log line
UptimePing ==
    /\ lpc = "ping"
    /\ lpc' = "top"
    /\ UNCHANGED <<addMode, removeMode, queued, call, lastCall, orphans, iter, delayed, gap,
                   orphansAtPop>>
    /\ UNCHANGED <<sharedVars, addVars, removeVars, connVars, extraVars>>

\* index.ts:140-142: catch (err) { logger.error(..) } and the next iteration
Catch ==
    /\ lpc = "catch"
    /\ lpc' = "top"
    /\ UNCHANGED <<addMode, removeMode, queued, call, lastCall, orphans, iter, delayed, gap,
                   orphansAtPop>>
    /\ UNCHANGED <<sharedVars, addVars, removeVars, connVars, extraVars>>

NextLoop ==
    \/ Iterate
    \/ LoopPopAdd
    \/ LoopPopRemove
    \/ StartCall
    \/ OperationSettles
    \/ TimerFires
    \/ OrphanSettles
    \/ PolicyDelay
    \/ LoopDelay
    \/ UptimePing
    \/ Catch

SpecLoop == InitLoop /\ [][NextLoop]_vars

\* setTimeout callbacks are run by the event loop, and so are the
\* continuations of the loop itself
SpecLoopFair == SpecLoop /\ WF_vars(TimerFires)

\* C16: one work item is fully processed before the next is popped and the
\* collaborator connection is never used by two operations at once: when a
\* work item is popped no call started earlier is still in flight, calls
\* whose withTimeout wrapper reported a timeout included, and no call is
\* started while another is in flight.
C16_OneCallAtATime ==
    /\ orphansAtPop = 0
    /\ call = "awaiting" => orphans = 0

\* C17: an iteration of mainLoop pops at most once from addQueue and then at
\* most once from removeQueue, and a delaySecs backoff runs between any two
\* consecutive pops, also when the flow of the earlier pop threw.
C17_BackoffBetweenPops ==
    /\ iter.add <= 1
    /\ iter.remove <= 1
    /\ lpc \in {"add:pop", "add:loopDelay", "add:policyDelay", "add:groupMetadata",
                "add:groupParticipantsUpdate"} => iter.remove = 0
    /\ gap # "none"

\* C18: a bounded collaborator call always hands control back to the flow,
\* with the result of the operation, its error, or the timeout error when
\* the operation never settles.
C18_BoundedCallsReturn == (call = "awaiting") ~> (call = "none")

\* C18 witness: a wrapper reported the timeout while its operation is still
\* in flight, and the flow went on to the next step
C18_Witness ==
    /\ lastCall = "timeout"
    /\ orphans > 0
    /\ call = "none"
    /\ lpc = "add:groupInviteCode"

\* delaySecs calls of the given kind issued for phone idx of the work item
Backoffs(idx, kind) ==
    Cardinality({k \in 1..Len(hist) :
        hist[k].op = "delaySecs" /\ hist[k].idx = idx /\ hist[k].arg = <<kind>>})

\* C19: in the per-phone loop a phone that was added or invited is followed
\* by the configured post-success backoff; a phone that was already a member
\* is followed by the shorter idle backoff and not by the post-success one,
\* and the request is still marked fulfilled.
C19_PerPhoneBackoff ==
    /\ \A idx \in PhoneIndexes :
          HasResult(idx) =>
              /\ ResultOf(idx) \in {"added", "invited"} =>
                    Backoffs(idx, "policy") = 1 /\ Backoffs(idx, "idle") = 0
              /\ ResultOf(idx) = "already_member" =>
                    Backoffs(idx, "policy") = 0 /\ Backoffs(idx, "idle") = 1
    /\ (pc = "done" /\ \E idx \in PhoneIndexes : HasResult(idx) /\ ResultOf(idx) = "already_member")
          => group_requests[item.request_id].fulfilled

(***************************************************************************)
(* connection.update (close) of the two revisions of the entry point:      *)
(* index.ts:230-278 and part_010:322-363                                   *)
(***************************************************************************)
MaxWaiters == 2

MaxSockets == 4

Revisions == {"waitForReconnect", "startWorker"}

DisconnectReasons == {"loggedOut", "connectionLost", "restartRequired"}

\* a close handler that never exits, set against CloseVerdict below
CloseVerdict_AlwaysRecovers(code) == "recover"

\* index.ts:231-237, part_010:323-331: isLoggedOut -> process.exit(1)
CloseVerdict(code) == IF code = "loggedOut" THEN "exit" ELSE "recover"

InitConn ==
    /\ revision \in Revisions
    /\ proc = "running"
    /\ exitReason = "none"
    /\ connection = "connecting"
    /\ lastDisconnect = "none"
    /\ waiters = 0
    /\ mainState = "running"
    /\ sockets = 1
    /\ mainLoopStarted = FALSE
    /\ running = FALSE
    /\ draining = 0
    /\ LoopIdle
    /\ addMode = TRUE
    /\ removeMode = TRUE
    /\ ExtraIdle
    /\ config \in {c \in DelayConfigs : c.MIN_DELAY <= c.MAX_DELAY}
    /\ member_groups = <<>>
    /\ now = 0
    /\ AddIdle
    /\ RemoveIdle

\* connection.update with connection "open" (index.ts:77-110, part_010:176-206):
\* pending waitForReconnect promises resolve, and mainLoop starts unless
\* mainLoopStarted is set
ConnectionOpen ==
    /\ proc = "running"
    /\ mainState = "running"
    /\ connection \in (IF revision = "waitForReconnect" THEN {"connecting", "close"}
                       ELSE {"connecting"})
    /\ connection' = "open"
    /\ waiters' = 0
    /\ mainLoopStarted' = TRUE
    /\ running' = TRUE
    /\ UNCHANGED <<revision, proc, exitReason, lastDisconnect, mainState, sockets, draining>>
    /\ UNCHANGED <<sharedVars, addVars, removeVars, loopVars, extraVars>>

\* connection.update with connection "connecting": the socket of index.ts
\* retries on its own
ConnectionConnecting ==
    /\ proc = "running"
    /\ revision = "waitForReconnect"
    /\ connection = "close"
    /\ connection' = "connecting"
    /\ UNCHANGED <<revision, proc, exitReason, lastDisconnect, waiters, mainState, sockets,
                   mainLoopStarted, running, draining>>
    /\ UNCHANGED <<sharedVars, addVars, removeVars, loopVars, extraVars>>

\* connection.update with connection "close" and the given status code
ConnectionClose(code) ==
    /\ proc = "running"
    /\ mainState = "running"
    /\ revision = "startWorker" => connection \in {"connecting", "open"}
    /\ connection' = "close"
    /\ lastDisconnect' = code
    /\ IF CloseVerdict(code) = "exit"
       THEN \* index.ts:234-237, part_010:328-331
            /\ proc' = "exited"
            /\ exitReason' = "loggedOut"
            /\ UNCHANGED <<waiters, mainState, mainLoopStarted, running, draining>>
       ELSE IF revision = "waitForReconnect"
       THEN \* index.ts:239-270: await waitForReconnect(60_000)
            /\ waiters' = IF waiters < MaxWaiters THEN waiters + 1 ELSE waiters
            /\ UNCHANGED <<proc, exitReason, mainState, mainLoopStarted, running, draining>>
       ELSE \* part_010:333-337: the loop is told to stop and main() returns
            /\ mainLoopStarted' = FALSE
            /\ running' = FALSE
            /\ draining' = IF running THEN draining + 1 ELSE draining
            /\ mainState' = "restarting"
            /\ UNCHANGED <<proc, exitReason, waiters>>
    /\ UNCHANGED <<revision, sockets>>
    /\ UNCHANGED <<sharedVars, addVars, removeVars, loopVars, extraVars>>

\* index.ts:261-264 and 272-277: the timer of a waitForReconnect fires
ReconnectTimeout ==
    /\ proc = "running"
    /\ waiters > 0
    /\ proc' = "exited"
    /\ exitReason' = "reconnect_timeout"
    /\ UNCHANGED <<revision, connection, lastDisconnect, waiters, mainState, sockets,
                   mainLoopStarted, running, draining>>
    /\ UNCHANGED <<sharedVars, addVars, removeVars, loopVars, extraVars>>

\* part_010:351-362: startWorker sleeps 5 s and calls main() again
RestartSocket ==
    /\ proc = "running"
    /\ mainState = "restarting"
    /\ sockets < MaxSockets
    /\ sockets' = sockets + 1
    /\ mainState' = "running"
    /\ connection' = "connecting"
    /\ UNCHANGED <<revision, proc, exitReason, lastDisconnect, waiters, mainLoopStarted,
                   running, draining>>
    /\ UNCHANGED <<sharedVars, addVars, removeVars, loopVars, extraVars>>

\* part_010:208: a loop whose shouldRun was cleared ends its iteration and
\* leaves the while
LoopLeaves ==
    /\ proc = "running"
    /\ draining > 0
    /\ draining' = draining - 1
    /\ UNCHANGED <<revision, proc, exitReason, connection, lastDisconnect, waiters, mainState,
                   sockets, mainLoopStarted, running>>
    /\ UNCHANGED <<sharedVars, addVars, removeVars, loopVars, extraVars>>

NextConn ==
    \/ ConnectionOpen
    \/ ConnectionConnecting
    \/ \E code \in DisconnectReasons : ConnectionClose(code)
    \/ ReconnectTimeout
    \/ RestartSocket
    \/ LoopLeaves

SpecConn == InitConn /\ [][NextConn]_vars

\* the worker is recovering the connection or has recovered it
Recovering ==
    \/ waiters > 0
    \/ mainState = "restarting"
    \/ connection \in {"connecting", "open"}

MaxRows == 3

MaxClock == 3

\* phone_number and group_id of the writes
RowPhones == {<<"5", "5">> \o KeyA}

RowGroups == {GroupRaw, GroupFull}

RowReasons == {"expired", "underage"}

InitRows ==
    /\ member_groups \in MemberTables
    /\ now = 1
    /\ config \in {c \in DelayConfigs : c.MIN_DELAY <= c.MAX_DELAY}
    /\ rowsPrev = member_groups
    /\ writes = <<>>
    /\ AddIdle
    /\ RemoveIdle
    /\ LoopIdle
    /\ addMode = TRUE
    /\ removeMode = TRUE
    /\ ConnIdle
    /\ RetryIdle
    /\ WelcomeIdle
    /\ MoreIdle

\* the latest two writes, the newest last
Noted(w) == IF writes = <<>> THEN <<w>> ELSE <<writes[Len(writes)], w>>

\* pgsql.ts:86-98: INSERT INTO member_groups
RecordEntry ==
    /\ Len(member_groups) < MaxRows
    /\ \E p \in RowPhones, g \in RowGroups :
          /\ member_groups' = recordUserEntryToGroup(member_groups, 7, p, g, "Active")
          /\ writes' = Noted([op |-> "entry", phone_number |-> p, group_id |-> g,
                              reason |-> "Active"])
    /\ rowsPrev' = member_groups
    /\ UNCHANGED <<now, config>>
    /\ UNCHANGED <<addVars, removeVars, loopVars, connVars, retryVars, welcomeVars,
                   moreVars>>

\* pgsql.ts:75-81: UPDATE member_groups .. WHERE .. exit_date IS NULL, NOW()
\* having moved on or not since the write before
RecordExit ==
    /\ \E p \in RowPhones, g \in RowGroups, r \in RowReasons, t \in {now, now + 1} :
          /\ t <= MaxClock
          /\ now' = t
          /\ member_groups' = recordUserExitFromGroup(member_groups, p, g, r, t)
          /\ writes' = Noted([op |-> "exit", phone_number |-> p, group_id |-> g,
                              reason |-> r])
    /\ rowsPrev' = member_groups
    /\ UNCHANGED config
    /\ UNCHANGED <<addVars, removeVars, loopVars, connVars, retryVars, welcomeVars,
                   moreVars>>

NextRows == RecordEntry \/ RecordExit

SpecRows == InitRows /\ [][NextRows]_vars

\* membership rows with every exit timestamp reduced to "closed"
RowsWithoutTimes(rows) ==
    [k \in DOMAIN rows |-> [rows[k] EXCEPT !.exit_date = IF @ = 0 THEN 0 ELSE 1]]

\* the latest write repeated the write before it
Repeated(op) ==
    /\ Len(writes) = 2
    /\ writes[1] = writes[2]
    /\ writes[2].op = op

\* C26: membership writes are safe to repeat: a second recordUserExitFromGroup
\* with the same arguments leaves the rows as the first left them, apart from
\* timestamps, and a recordUserEntryToGroup, repeated or not, changes no
\* existing row and appends one Active row that is open.
C26_RepeatableWrites ==
    /\ Repeated("exit") => RowsWithoutTimes(member_groups) = RowsWithoutTimes(rowsPrev)
    /\ (writes # <<>> /\ writes[Len(writes)].op = "entry") =>
          /\ Len(member_groups) = Len(rowsPrev) + 1
          /\ SubSeq(member_groups, 1, Len(rowsPrev)) = rowsPrev
          /\ member_groups[Len(member_groups)].status = "Active"
          /\ member_groups[Len(member_groups)].exit_date = 0
          /\ member_groups[Len(member_groups)].phone_number = writes[Len(writes)].phone_number
          /\ member_groups[Len(member_groups)].group_id = writes[Len(writes)].group_id

\* C26 witness: an exit that closed two open rows of the same member and
\* group was written a second time, at a later NOW()
C26_Witness ==
    /\ Repeated("exit")
    /\ now = 3
    /\ Cardinality({k \in DOMAIN member_groups :
          /\ member_groups[k].phone_number = writes[2].phone_number
          /\ member_groups[k].group_id = writes[2].group_id
          /\ member_groups[k].exit_date = 2}) = 2

\* the answers of the removal call settled for the current Remove work item
SettledRemovals ==
    {rhist[k].arg[1] : k \in {j \in 1..Len(rhist) : rhist[j].op = "groupParticipantsUpdate:settled"}}

\* an answer that carries a success status for the target
SuccessStatus(out) ==
    /\ out.kind = "array"
    /\ out.status \in {StatusNumber(200), StatusNumber(207), StatusString(<<"2", "0", "0">>)}

\* C27: the remove flow reports removed = true, and writes the exit record,
\* only when the removal call returned a success status for the target; a
\* call that throws, times out or returns another status gives removed =
\* false with a technical errorReason.
C27_RemovedOnlyOnSuccessStatus ==
    (RemoveItemEnded /\ rresult # Nil) =>
        /\ rresult.removed => \E out \in SettledRemovals : SuccessStatus(out)
        /\ ExitRecords # {} => \E out \in SettledRemovals : SuccessStatus(out)
        /\ (\E out \in SettledRemovals : out.kind \in Rejections \/ (out.kind = "array" /\ ~SuccessStatus(out)))
              => ~rresult.removed /\ rresult.errorReason # ""

\* positions in hist of the calls of the given kind made for phone idx
At(op, idx) == {k \in 1..Len(hist) : hist[k].op = op /\ hist[k].idx = idx}

\* an invite send for phone idx completed without error
InviteWentOut(idx) ==
    \E k \in At("sendMessage:groupInvite", idx) \cup At("sendMessage:text", idx) :
        hist[k].arg = <<"sent">>

InitFlows == InitAdd \/ InitRemove

NextFlows == (addMode /\ NextAdd) \/ (removeMode /\ NextRemove)

SpecFlows == InitFlows /\ [][NextFlows]_vars

\* collaborator calls made inside addMemberToGroup
AddMemberCalls ==
    {"groupParticipantsUpdate:add", "sendGroupInviteMessage", "groupInviteCode",
     "sendMessage:groupInvite", "sendMessage:text"}

\* a collaborator call made for the current phone threw or timed out
CallThrew ==
    \/ cur.out # Nil /\ cur.out.kind \in Rejections
    \/ \E k \in At("groupInviteCode", i) \cup At("sendMessage:groupInvite", i)
                  \cup At("sendMessage:text", i) : hist[k].arg = <<"threw">>

\* a collaborator call made for the Remove work item threw or timed out
RemoveCallThrew ==
    \/ rresult # Nil /\ rresult.errorReason = "exception"
    \/ \E out \in SettledRemovals : out.kind \in Rejections

\* processAddQueue threw while addMemberToGroup ran for the current phone
AddMemberThrew == pc = "threw" /\ cur.authorized # Nil /\ cur.attempt = "none"

\* what both readings of C30 share: the two functions throw for an invalid
\* phone identity only, and a failed call of the remove flow gives removed =
\* false with an errorReason
ThrowOnlyForIdentity ==
    /\ AddMemberThrew =>
          /\ phoneToUserJid(cur.authorized.phone_number) = Null
          /\ \A op \in AddMemberCalls : At(op, i) = {}
    /\ (pc = "threw" /\ hist # <<>>) => hist[Len(hist)].op \notin AddMemberCalls
    /\ (rpc = "threw" /\ rhist # <<>>) => rhist[Len(rhist)].op = "delaySecs"
    /\ (rpc = "threw" /\ rhist = <<>>) => ruserJid = Null
    /\ (RemoveItemEnded /\ RemoveCallThrew) =>
          /\ ~rresult.removed
          /\ rresult.errorReason # ""
          /\ ExitRecords = {}
          /\ rret = "false"

\* C30 as claimed: every exception or timeout of a collaborator call inside
\* addMemberToGroup or removeMemberFromGroup becomes a non-success result (a
\* failed attempt, or removed = false with errorReason), and the two
\* functions throw only for an invalid phone identity.
C30_AsClaimed ==
    /\ ThrowOnlyForIdentity
    /\ (cur.attempt # "none" /\ CallThrew) => cur.attempt = "failed"

\* C30: the same, except that in addMemberToGroup an exception or timeout is
\* first answered by the invite fallback: the attempt is failed unless an
\* invite send completed after it, in which case the phone is invited; it is
\* never added or already_member.
C30_ExceptionsBecomeResults ==
    /\ ThrowOnlyForIdentity
    /\ (cur.attempt # "none" /\ CallThrew) =>
          /\ cur.attempt \in {"invited", "failed"}
          /\ cur.attempt = "invited" <=> InviteWentOut(i)

\* C30 witness: the add call timed out or threw and so did both invite
\* attempts, and the phone ended as failed with the loop going on
C30_Witness ==
    /\ pc = "done"
    /\ \E idx \in PhoneIndexes :
          /\ HasResult(idx) /\ ResultOf(idx) = "failed"
          /\ \E k \in At("sendMessage:groupInvite", idx) : hist[k].arg = <<"threw">>
          /\ \E k \in At("sendMessage:text", idx) : hist[k].arg = <<"threw">>

(***************************************************************************)
(* withRetry (addTask.ts:88-108)                                           *)
(***************************************************************************)
MaxRetries == 2

\* addTask.ts:34 and 45: parseEnvNumber admits any finite number
RetryEnvs == [MAX_RETRIES : -1..MaxRetries, ADD_DELAY : {-1, 0, 1, 3}]

\* what one invocation of fn can do: return a value (a status), or throw an
\* Error or something that is not an Error
FnOutcomes ==
    [kind : {"value"}, v : {200, 409}] \cup [kind : {"error"}, isError : BOOLEAN]

\* addTask.ts:92: return await fn()
Settles(out) == out.kind = "value"

Pow2(n) == IF n <= 0 THEN 1 ELSE IF n = 1 THEN 2 ELSE IF n = 2 THEN 4 ELSE 8

\* addTask.ts:96 without the fraction Math.random() adds
BackoffFloor(env, n) == IF env.ADD_DELAY < Pow2(n) THEN env.ADD_DELAY ELSE Pow2(n)

\* addTask.ts:107: throw lastErr instanceof Error ? lastErr : new Error(String(lastErr))
Rethrown(err) ==
    IF err = Nil THEN [from |-> "withRetry", invocation |-> 0, wrapped |-> TRUE]
    ELSE [from |-> "fn", invocation |-> err.invocation, wrapped |-> ~err.isError]

InitRetry ==
    /\ retryEnv \in RetryEnvs
    /\ wpc = "loop"
    /\ retryAttempt = 0
    /\ lastErr = Nil
    /\ invocations = <<>>
    /\ sleeps = <<>>
    /\ retryOut = Nil
    /\ member_groups = <<>>
    /\ now = 0
    /\ config \in {c \in DelayConfigs : c.MIN_DELAY <= c.MAX_DELAY}
    /\ AddIdle
    /\ RemoveIdle
    /\ LoopIdle
    /\ addMode = TRUE
    /\ removeMode = FALSE
    /\ ConnIdle
    /\ RowsIdle
    /\ WelcomeIdle
    /\ MoreIdle

\* addTask.ts:90-95: one pass of the loop body up to the test of line 95
InvokeFn ==
    /\ wpc = "loop"
    /\ retryAttempt <= retryEnv.MAX_RETRIES
    /\ \E out \in FnOutcomes :
        /\ invocations' = Append(invocations, out)
        /\ IF Settles(out)
           THEN /\ wpc' = "returned"
                /\ retryOut' = out
                /\ UNCHANGED <<lastErr, retryAttempt>>
           ELSE /\ lastErr' = [invocation |-> Len(invocations) + 1, isError |-> out.isError]
                /\ retryOut' = retryOut
                /\ IF retryAttempt < retryEnv.MAX_RETRIES
                   THEN wpc' = "backoff" /\ retryAttempt' = retryAttempt
                   ELSE wpc' = "loop" /\ retryAttempt' = retryAttempt + 1
    /\ UNCHANGED <<retryEnv, sleeps>>
    /\ UNCHANGED <<sharedVars, addVars, removeVars, loopVars, connVars, rowVars, welcomeVars,
                   moreVars>>

\* addTask.ts:96-103: await delaySecs(backoff, backoff) inside the catch block;
\* what delaySecs throws leaves withRetry
RetryBackoff ==
    /\ wpc = "backoff"
    /\ LET floor == BackoffFloor(retryEnv, retryAttempt)
       IN  IF delaySecsThrows(floor, floor, 0)
           THEN /\ wpc' = "threw"
                /\ retryOut' = [from |-> "delaySecs", invocation |-> 0, wrapped |-> FALSE]
                /\ UNCHANGED <<retryAttempt, sleeps>>
           ELSE /\ sleeps' = Append(sleeps, floor)
                /\ retryAttempt' = retryAttempt + 1
                /\ wpc' = "loop"
                /\ retryOut' = retryOut
    /\ UNCHANGED <<retryEnv, lastErr, invocations>>
    /\ UNCHANGED <<sharedVars, addVars, removeVars, loopVars, connVars, rowVars, welcomeVars,
                   moreVars>>

\* addTask.ts:107: the loop is over
RetriesExhausted ==
    /\ wpc = "loop"
    /\ retryAttempt > retryEnv.MAX_RETRIES
    /\ wpc' = "threw"
    /\ retryOut' = Rethrown(lastErr)
    /\ UNCHANGED <<retryEnv, retryAttempt, lastErr, invocations, sleeps>>
    /\ UNCHANGED <<sharedVars, addVars, removeVars, loopVars, connVars, rowVars, welcomeVars,
                   moreVars>>

NextRetry == InvokeFn \/ RetryBackoff \/ RetriesExhausted

SpecRetry == InitRetry /\ [][NextRetry]_vars

\* every invocation of fn so far threw
AllThrew == \A k \in 1..Len(invocations) : invocations[k].kind = "error"

\* at most MAX_RETRIES + 1 invocations, none after one that returned, the
\* returned value handed back as it is
BoundedAndStopsOnReturn ==
    /\ Len(invocations) <= retryEnv.MAX_RETRIES + 1 \/ invocations = <<>>
    /\ \A k \in 1..Len(invocations) : invocations[k].kind = "value" => k = Len(invocations)
    /\ wpc = "returned" <=> (invocations # <<>> /\ ~AllThrew)
    /\ wpc = "returned" => retryOut = invocations[Len(invocations)]
    /\ Len(sleeps) <= Len(invocations)
    /\ \A k \in 1..Len(sleeps) : invocations[k].kind = "error"
    /\ Len(invocations) <= Len(sleeps) + 1

\* C28: withRetry invokes fn at most MAX_RETRIES + 1 times, stops at the first
\* invocation that returns and hands its value back, retries only after a
\* thrown exception, and when every invocation throws it rethrows the error
\* of the last invocation (after MAX_RETRIES + 1 of them).
C28_RetryContract ==
    /\ BoundedAndStopsOnReturn
    /\ (wpc = "threw" /\ invocations # <<>>) =>
          /\ AllThrew
          /\ Len(invocations) = retryEnv.MAX_RETRIES + 1
          /\ retryOut.from = "fn"
          /\ retryOut.invocation = Len(invocations)

\* the same for environments whose ADD_DELAY is not negative
RetryContractWithValidDelay ==
    retryEnv.ADD_DELAY >= 0 => C28_RetryContract

(***************************************************************************)
(* src/src/core/firstContactWelcome.ts: registerFirstContactWelcome        *)
(***************************************************************************)
MaxEvents == 3

MaxReplies == 2

\* AUDIO_REQUEST_WINDOW_MS (firstContactWelcome.ts:12) in ticks of the clock
AUDIO_REQUEST_WINDOW == 1

\* group names after trim().toLowerCase()
FirstContactName == "primeiro contato"
MensampaName == "mensampa regional"
OtherName == "outro"

WelcomeGroup == GroupFull
QuietGroup == <<"7">> \o GROUP_SUFFIX
WGroups == {WelcomeGroup, QuietGroup}

\* sock.user.id
botJid == <<"8", "8", ":", "0">> \o WA_SUFFIX
BotBare == <<"8", "8">> \o WA_SUFFIX
BotLid == <<"7", "7", ":", "0">> \o LID_SUFFIX

\* one person in the address forms WhatsApp uses for them
MemberPn == <<"9", "9">> \o WA_SUFFIX
MemberPnDevice == <<"9", "9", ":", "3">> \o WA_SUFFIX
MemberLid == <<"1", "2", ":", "0">> \o LID_SUFFIX
MemberJids == {MemberPn, MemberPnDevice, MemberLid}
BotJids == {botJid, BotBare, BotLid}

Joiner(phoneNumber, id) ==
    [kind |-> "object", phoneNumber |-> phoneNumber, id |-> id, jid |-> Null,
     lid |-> Null, user |-> Null]

JoinUpdate(id, participants, action) ==
    [id |-> id, participants |-> participants, action |-> action]

JoinUpdates ==
    { JoinUpdate(WelcomeGroup, <<Joiner(Null, MemberPn)>>, "add"),
      JoinUpdate(WelcomeGroup, <<Joiner(MemberPn, MemberLid)>>, "add"),
      JoinUpdate(WelcomeGroup, <<Joiner(Null, botJid), Joiner(Null, MemberPn)>>, "add"),
      JoinUpdate(WelcomeGroup, <<Joiner(Null, BotBare)>>, "add"),
      JoinUpdate(WelcomeGroup, <<Joiner(Null, MemberPn)>>, "remove"),
      JoinUpdate(WelcomeGroup, <<>>, "add"),
      JoinUpdate(QuietGroup, <<Joiner(Null, MemberPn)>>, "add") }

One == <<"1">>
PaddedOne == <<" ", "1", " ">>
Hello == <<"h", "i">>

UpsertMessage(remoteJid, participant, fromMe, text) ==
    [remoteJid |-> remoteJid, participant |-> participant, fromMe |-> fromMe,
     text |-> text]

UpsertMessages ==
    { UpsertMessage(WelcomeGroup, MemberPnDevice, FALSE, PaddedOne),
      UpsertMessage(WelcomeGroup, MemberLid, FALSE, One),
      UpsertMessage(WelcomeGroup, MemberPn, FALSE, Hello),
      UpsertMessage(WelcomeGroup, botJid, TRUE, One),
      UpsertMessage(WelcomeGroup, Null, FALSE, One),
      UpsertMessage(Null, MemberPn, FALSE, One) }

\* firstContactWelcome.ts:38-54
normalizeParticipantId(participant) ==
    IF participant = Nil THEN Null
    ELSE IF participant.kind = "string"
    THEN (IF participant.s = <<>> THEN Null ELSE participant.s)
    ELSE IF participant.phoneNumber # Null /\ participant.phoneNumber # <<>>
    THEN participant.phoneNumber
    ELSE IF participant.id # Null THEN participant.id
    ELSE IF participant.jid # Null THEN participant.jid
    ELSE IF participant.lid # Null THEN participant.lid
    ELSE participant.user

\* firstContactWelcome.ts:62-67
jidToDigitsKey(jid) ==
    LET beforeAt == SplitFirst(jid, "@")
        beforeColon == SplitFirst(beforeAt, ":")
        digits == StripNonDigits(beforeColon)
    IN  IF digits = <<>> THEN jid ELSE digits

\* firstContactWelcome.ts:11 and 147-153
shouldWelcome(action) == action = "add"

\* firstContactWelcome.ts:109-138; metadata is "ok" or "threw"
ensureGroupCached(cache, id, target, subject, metadata) ==
    IF cache[id] = target THEN [is |-> TRUE, cache |-> cache]
    ELSE IF metadata = "threw" THEN [is |-> FALSE, cache |-> cache]
    ELSE [is |-> subject = target, cache |-> [cache EXCEPT ![id] = subject]]

\* redis.ts:54-72: SET key NX PX; "null" when Redis cannot be reached
tryAcquireFirstContactLock(held, group, participantJid, redisUp) ==
    IF ~redisUp THEN [result |-> "null", locks |-> held]
    ELSE IF <<group, participantJid>> \in held THEN [result |-> "false", locks |-> held]
    ELSE [result |-> "true", locks |-> held \cup {<<group, participantJid>>}]

\* a handler that goes on unless another worker holds the lock, set against
\* LockAllows below
LockAllows_UnlessHeld(result) == result # "false"

\* firstContactWelcome.ts:205-220: only a lock that was acquired lets the
\* handler go on with the member
LockAllows(result) == result = "true"

\* a welcome send without its own try, set against AfterWelcome below
AfterWelcome_StopsOnThrow(outcome) == IF outcome = "threw" THEN "caught" ELSE "form"

\* firstContactWelcome.ts:249-263: the welcome send has its own try/catch
AfterWelcome(outcome) == "form"

\* any text asks for the audio, set against IsAudioRequest below
IsAudioRequest_AnyText(text) == TRUE

\* firstContactWelcome.ts:369-379
IsAudioRequest(text) == Trim(text) = One

SendAttempt(kind, to, mentions, outcome) ==
    [kind |-> kind, to |-> to, mentions |-> mentions, outcome |-> outcome]

SendOutcomes2 == {"sent", "threw"}

\* Map.prototype.delete / set on an inner Map of pendingAudioRequests
DeleteKey(map, key) == {r \in map : r.key # key}
SetKey(map, request) == DeleteKey(map, request.key) \cup {request}

\* clearTimeout
ClearTimeout(ts, timeoutId) == {t \in ts : t.timeoutId # timeoutId}

\* firstContactWelcome.ts:361-365 and 399-403: delete from the inner Map at
\* hand, and drop the group's entry once that Map is empty
DeleteRequest(pend, maps, group, n, key) ==
    LET left == DeleteKey(maps[n], key)
    IN  [pend |-> IF left = {} THEN [pend EXCEPT ![group] = 0] ELSE pend,
         maps |-> [maps EXCEPT ![n] = left]]

RemoveAt(seq, k) == SubSeq(seq, 1, k - 1) \o SubSeq(seq, k + 1, Len(seq))

\* FIRST_CONTACT_GROUP_NAME and the subject of WelcomeGroup: the first-contact
\* group, the regional group under another first-contact name or under none,
\* and one group that is both
WelcomeSetups ==
    { <<FirstContactName, FirstContactName>>, <<FirstContactName, MensampaName>>,
      <<"none", MensampaName>>, <<MensampaName, MensampaName>> }

InitWelcome ==
    /\ \E names \in WelcomeSetups :
        /\ normalizedTargetName = names[1]
        /\ subjects = [g \in WGroups |-> IF g = WelcomeGroup THEN names[2] ELSE OtherName]
    /\ groupNameCache = [g \in WGroups |-> "none"]
    /\ audioFile \in BOOLEAN
    /\ locks = {}
    /\ pendingAudioRequests = [g \in WGroups |-> 0]
    /\ requestMaps = <<>>
    /\ timers = {}
    /\ join = Nil
    /\ replies = <<>>
    /\ events = 0
    /\ joinLog = Nil
    /\ sends = <<>>
    /\ audio = Nil
    /\ handled = Nil
    /\ member_groups = <<>>
    /\ now = 0
    /\ config \in {c \in DelayConfigs : c.MIN_DELAY <= c.MAX_DELAY}
    /\ AddIdle
    /\ RemoveIdle
    /\ LoopIdle
    /\ addMode = TRUE
    /\ removeMode = TRUE
    /\ ConnIdle
    /\ RowsIdle
    /\ RetryIdle
    /\ MoreIdle

\* the member the handler in flight is at
Member == join.members[join.k]

\* firstContactWelcome.ts:204: the next turn of for (const member of newMembers)
NextMember(j) ==
    IF j.k < Len(j.members) THEN [j EXCEPT !.k = j.k + 1, !.pos = "lock"] ELSE Nil

\* firstContactWelcome.ts:167-186: a group-participants.update event, up to
\* the first await
JoinArrives ==
    /\ join = Nil
    /\ events < MaxEvents
    /\ \E update \in JoinUpdates :
        LET ids == [k \in 1..Len(update.participants) |->
                        normalizeParticipantId(update.participants[k])]
            participantIds == SelectSeq(ids, LAMBDA id : id # Null /\ id # <<>>)
        IN  join' = IF update.participants = <<>> \/ ~shouldWelcome(update.action)
                    THEN Nil
                    ELSE [update |-> update, ev |-> events + 1, members |-> participantIds,
                          k |-> 0, isFirstContactGroup |-> FALSE,
                          isMensampaGroup |-> FALSE, pos |-> "groups"]
    /\ events' = events + 1
    /\ UNCHANGED <<normalizedTargetName, subjects, groupNameCache, audioFile, locks,
                   pendingAudioRequests, requestMaps, timers, replies, sends, joinLog,
                   audio, handled>>
    /\ UNCHANGED <<sharedVars, addVars, removeVars, loopVars, connVars, rowVars, retryVars,
                   moreVars>>

\* firstContactWelcome.ts:190-202: which rules the group falls under, and the
\* members left after the bot's own id is taken out
JoinGroupCheck ==
    /\ join # Nil
    /\ join.pos = "groups"
    /\ \E m1 \in {"ok", "threw"}, m2 \in {"ok", "threw"} :
        LET id == join.update.id
            first == IF normalizedTargetName # "none"
                     THEN ensureGroupCached(groupNameCache, id, normalizedTargetName,
                                            subjects[id], m1)
                     ELSE [is |-> FALSE, cache |-> groupNameCache]
            mensampa == ensureGroupCached(first.cache, id, MensampaName, subjects[id], m2)
            newMembers == SelectSeq(join.members, LAMBDA jid : jid # botJid)
        IN  /\ groupNameCache' = mensampa.cache
            /\ join' = IF (~first.is /\ ~mensampa.is) \/ newMembers = <<>>
                       THEN Nil
                       ELSE [join EXCEPT !.members = newMembers, !.k = 1,
                                         !.isFirstContactGroup = first.is,
                                         !.isMensampaGroup = mensampa.is,
                                         !.pos = "lock"]
    /\ UNCHANGED <<normalizedTargetName, subjects, audioFile, locks, pendingAudioRequests,
                   requestMaps, timers, replies, events, sends, joinLog, audio, handled>>
    /\ UNCHANGED <<sharedVars, addVars, removeVars, loopVars, connVars, rowVars, retryVars,
                   moreVars>>

\* firstContactWelcome.ts:204-220
JoinLock ==
    /\ join # Nil
    /\ join.pos = "lock"
    /\ \E redisUp \in BOOLEAN :
        LET r == tryAcquireFirstContactLock(locks, join.update.id, Member, redisUp)
        IN  /\ locks' = r.locks
            /\ joinLog' = [group |-> join.update.id,
                            member |-> Member, lock |-> r.result,
                            isFirstContactGroup |-> join.isFirstContactGroup,
                            isMensampaGroup |-> join.isMensampaGroup]
            /\ sends' = <<>>
            /\ join' = IF ~LockAllows(r.result) THEN NextMember(join)
                       ELSE [join EXCEPT !.pos = IF join.isFirstContactGroup
                                                  THEN "welcome" ELSE "regional"]
    /\ UNCHANGED <<normalizedTargetName, subjects, groupNameCache, audioFile,
                   pendingAudioRequests, requestMaps, timers, replies, events, audio,
                   handled>>
    /\ UNCHANGED <<sharedVars, addVars, removeVars, loopVars, connVars, rowVars, retryVars,
                   moreVars>>

\* firstContactWelcome.ts:222-263
JoinWelcome ==
    /\ join # Nil
    /\ join.pos = "welcome"
    /\ \E outcome \in SendOutcomes2 :
        /\ sends' = Append(sends, SendAttempt("welcome", join.update.id, <<Member>>,
                                              outcome))
        /\ join' = [join EXCEPT !.pos = AfterWelcome(outcome)]
    /\ UNCHANGED <<normalizedTargetName, subjects, groupNameCache, audioFile, locks,
                   pendingAudioRequests, requestMaps, timers, replies, events, joinLog,
                   audio, handled>>
    /\ UNCHANGED <<sharedVars, addVars, removeVars, loopVars, connVars, rowVars, retryVars,
                   moreVars>>

\* firstContactWelcome.ts:265-309: the form send, then the pending audio
\* request of the member
JoinForm ==
    /\ join # Nil
    /\ join.pos = "form"
    /\ \E outcome \in SendOutcomes2 :
        sends' = Append(sends, SendAttempt("form", join.update.id, <<>>, outcome))
    /\ LET id == join.update.id
           memberKey == jidToDigitsKey(Member)
           n == pendingAudioRequests[id]
           existing == IF n = 0 THEN {} ELSE {r \in requestMaps[n] : r.key = memberKey}
           request == [key |-> memberKey, expiresAt |-> now + AUDIO_REQUEST_WINDOW,
                       timeoutId |-> <<join.ev, join.k>>]
       IN  /\ timers' = {t \in timers : \A r \in existing : t.timeoutId # r.timeoutId}
                          \cup {[timeoutId |-> <<join.ev, join.k>>, id |-> id,
                                 memberKey |-> memberKey,
                                 due |-> now + AUDIO_REQUEST_WINDOW]}
           /\ IF n = 0
              THEN /\ requestMaps' = Append(requestMaps, {request})
                   /\ pendingAudioRequests' =
                          [pendingAudioRequests EXCEPT ![id] = Len(requestMaps) + 1]
              ELSE /\ requestMaps' = [requestMaps EXCEPT ![n] = SetKey(@, request)]
                   /\ UNCHANGED pendingAudioRequests
    /\ join' = IF join.isMensampaGroup THEN [join EXCEPT !.pos = "regional"]
               ELSE NextMember(join)
    /\ UNCHANGED <<normalizedTargetName, subjects, groupNameCache, audioFile, locks,
                   replies, events, joinLog, audio, handled>>
    /\ UNCHANGED <<sharedVars, addVars, removeVars, loopVars, connVars, rowVars, retryVars,
                   moreVars>>

\* firstContactWelcome.ts:311-320: the regional welcome has no try of its own
JoinRegional ==
    /\ join # Nil
    /\ join.pos = "regional"
    /\ \E outcome \in SendOutcomes2 :
        /\ sends' = Append(sends, SendAttempt("regional", join.update.id, <<>>,
                                              outcome))
        /\ join' = IF outcome = "threw" THEN [join EXCEPT !.pos = "caught"]
                   ELSE NextMember(join)
    /\ UNCHANGED <<normalizedTargetName, subjects, groupNameCache, audioFile, locks,
                   pendingAudioRequests, requestMaps, timers, replies, events, joinLog,
                   audio, handled>>
    /\ UNCHANGED <<sharedVars, addVars, removeVars, loopVars, connVars, rowVars, retryVars,
                   moreVars>>

\* firstContactWelcome.ts:322-324: the catch of the whole handler
JoinCaught ==
    /\ join # Nil
    /\ join.pos = "caught"
    /\ join' = Nil
    /\ UNCHANGED <<normalizedTargetName, subjects, groupNameCache, audioFile, locks,
                   pendingAudioRequests, requestMaps, timers, replies, events, sends,
                   joinLog, audio, handled>>
    /\ UNCHANGED <<sharedVars, addVars, removeVars, loopVars, connVars, rowVars, retryVars,
                   moreVars>>

\* firstContactWelcome.ts:287-297: the timer of a pending request fires
RequestTimeout ==
    /\ \E t \in timers :
        /\ now >= t.due
        /\ timers' = timers \ {t}
        /\ LET n == pendingAudioRequests[t.id]
           IN  IF n = 0
               THEN UNCHANGED <<pendingAudioRequests, requestMaps>>
               ELSE LET d == DeleteRequest(pendingAudioRequests, requestMaps, t.id, n,
                                           t.memberKey)
                    IN  /\ pendingAudioRequests' = d.pend
                        /\ requestMaps' = d.maps
    /\ UNCHANGED <<normalizedTargetName, subjects, groupNameCache, audioFile, locks,
                   join, replies, events, sends, joinLog, audio, handled>>
    /\ UNCHANGED <<sharedVars, addVars, removeVars, loopVars, connVars, rowVars, retryVars,
                   moreVars>>

\* the address forms of the person behind an address
PersonOf(jid) ==
    IF jid \in MemberJids THEN MemberJids ELSE IF jid \in BotJids THEN BotJids ELSE {jid}

\* the sender of msg, in whatever address form, joined msg.remoteJid and has a
\* request there that was neither answered nor timed out nor has expired
PendingFor(msg) ==
    /\ msg.participant # Null
    /\ \E t \in timers :
          /\ t.id = msg.remoteJid
          /\ t.memberKey \in {jidToDigitsKey(jid) : jid \in PersonOf(msg.participant)}
          /\ now <= t.due

\* what lines 329-379 decide about one message before the first await
Verdict(msg) ==
    IF msg.fromMe THEN "fromMe"
    ELSE IF msg.remoteJid = Null THEN "noRemoteJid"
    ELSE IF pendingAudioRequests[msg.remoteJid] = 0
            \/ requestMaps[pendingAudioRequests[msg.remoteJid]] = {} THEN "noRequests"
    ELSE IF msg.participant = Null THEN "noParticipant"
    ELSE LET found == {r \in requestMaps[pendingAudioRequests[msg.remoteJid]] :
                          r.key = jidToDigitsKey(msg.participant)}
         IN  IF found = {} THEN "notFound"
             ELSE IF \E r \in found : now > r.expiresAt THEN "expired"
             ELSE IF ~IsAudioRequest(msg.text) THEN "otherText"
             ELSE "request"

\* firstContactWelcome.ts:327-380: a messages.upsert event with one message,
\* up to await getWelcomeAudioBuffer()
MessageArrives ==
    /\ events < MaxEvents
    /\ Len(replies) < MaxReplies
    /\ \E msg \in UpsertMessages :
        LET v == Verdict(msg)
            n == pendingAudioRequests[msg.remoteJid]
            participantKey == jidToDigitsKey(msg.participant)
            request == CHOOSE r \in requestMaps[n] : r.key = participantKey
        IN  /\ handled' = [msg |-> msg, verdict |-> v, pending |-> PendingFor(msg)]
            /\ IF v = "expired"
               THEN LET d == DeleteRequest(pendingAudioRequests, requestMaps,
                                           msg.remoteJid, n, participantKey)
                    IN  /\ timers' = ClearTimeout(timers, request.timeoutId)
                        /\ pendingAudioRequests' = d.pend
                        /\ requestMaps' = d.maps
                        /\ UNCHANGED replies
               ELSE IF v = "request"
               THEN /\ replies' = Append(replies,
                                         [msg |-> msg, map |-> n,
                                          request |-> request, at |-> now,
                                          pos |-> "buffer", outcome |-> "none"])
                    /\ UNCHANGED <<timers, pendingAudioRequests, requestMaps>>
               ELSE UNCHANGED <<timers, pendingAudioRequests, requestMaps, replies>>
    /\ events' = events + 1
    /\ UNCHANGED <<normalizedTargetName, subjects, groupNameCache, audioFile, locks, join,
                   sends, joinLog, audio>>
    /\ UNCHANGED <<sharedVars, addVars, removeVars, loopVars, connVars, rowVars, retryVars,
                   moreVars>>

\* firstContactWelcome.ts:399-403 for the handler at place k of replies
Answered(k) ==
    LET reply == replies[k]
        d == DeleteRequest(pendingAudioRequests, requestMaps, reply.msg.remoteJid,
                           reply.map, reply.request.key)
    IN  /\ timers' = ClearTimeout(timers, reply.request.timeoutId)
        /\ pendingAudioRequests' = d.pend
        /\ requestMaps' = d.maps
        /\ replies' = RemoveAt(replies, k)

\* firstContactWelcome.ts:381-392: the audio buffer is there or not, and the
\* send starts
ReplyLoadsAudio ==
    /\ \E k \in 1..Len(replies) :
        /\ replies[k].pos = "buffer"
        /\ IF ~audioFile
           THEN /\ Answered(k)
                /\ UNCHANGED audio
           ELSE \E outcome \in SendOutcomes2 :
                /\ audio' = [send |-> SendAttempt("audio", replies[k].msg.remoteJid, <<>>,
                                                   outcome),
                              reply |-> replies[k]]
                /\ replies' = [replies EXCEPT ![k].pos = "sending",
                                              ![k].outcome = outcome]
                /\ UNCHANGED <<timers, pendingAudioRequests, requestMaps>>
    /\ UNCHANGED <<normalizedTargetName, subjects, groupNameCache, audioFile, locks, join,
                   events, sends, joinLog, handled>>
    /\ UNCHANGED <<sharedVars, addVars, removeVars, loopVars, connVars, rowVars, retryVars,
                   moreVars>>

\* firstContactWelcome.ts:388-406: the send settled
ReplySettles ==
    /\ \E k \in 1..Len(replies) :
        /\ replies[k].pos = "sending"
        /\ IF replies[k].outcome = "threw"
           THEN /\ replies' = RemoveAt(replies, k)
                /\ UNCHANGED <<timers, pendingAudioRequests, requestMaps>>
           ELSE Answered(k)
    /\ UNCHANGED <<normalizedTargetName, subjects, groupNameCache, audioFile, locks, join,
                   events, sends, joinLog, audio, handled>>
    /\ UNCHANGED <<sharedVars, addVars, removeVars, loopVars, connVars, rowVars, retryVars,
                   moreVars>>

\* Date.now() moves on, up to the tick after the window of a request made at 0
Tick ==
    /\ now <= AUDIO_REQUEST_WINDOW
    /\ now' = now + 1
    /\ UNCHANGED <<member_groups, config>>
    /\ UNCHANGED welcomeVars
    /\ UNCHANGED <<addVars, removeVars, loopVars, connVars, rowVars, retryVars,
                   moreVars>>

NextWelcome ==
    \/ JoinArrives \/ JoinGroupCheck \/ JoinLock \/ JoinWelcome \/ JoinForm
    \/ JoinRegional \/ JoinCaught \/ RequestTimeout \/ MessageArrives
    \/ ReplyLoadsAudio \/ ReplySettles \/ Tick

SpecWelcome == InitWelcome /\ [][NextWelcome]_vars

\* the kinds of the sends attempted for the member of the latest lock attempt
Kinds == [k \in 1..Len(sends) |-> sends[k].kind]

IsPrefix(p, q) == Len(p) <= Len(q) /\ SubSeq(q, 1, Len(p)) = p

\* the join handler is through with the member of the latest lock attempt
MemberDone == join = Nil \/ join.pos \in {"groups", "lock", "caught"}

\* the lock was acquired for a new participant of the first-contact group
Welcomed == joinLog # Nil /\ joinLog.lock = "true" /\ joinLog.isFirstContactGroup

\* the sends are to the group, the welcome mentions the member, and they
\* follow the order expected, all of it once the member is done
SendsFollow(expected) ==
    /\ IsPrefix(Kinds, expected)
    /\ MemberDone => Kinds = expected
    /\ \A k \in 1..Len(sends) :
          /\ sends[k].to = joinLog.group
          /\ sends[k].mentions = IF sends[k].kind = "welcome" THEN <<joinLog.member>>
                                 ELSE <<>>

\* C21 as claimed: for every new participant of the first-contact group for
\* whom the lock was acquired exactly two sends are attempted, the welcome
\* text mentioning the participant and then the form text, whatever the
\* welcome send did, and the handler ends through no other exit than its own.
C21_AsClaimed ==
    Welcomed => SendsFollow(<<"welcome", "form">>)

\* C21: the same two sends in that order, the form also after a welcome send
\* that threw; a third send, the regional welcome, follows them exactly when
\* the first-contact group is also the group named Mensampa Regional.
C21_WelcomeThenForm ==
    Welcomed =>
        /\ SendsFollow(IF joinLog.isMensampaGroup THEN <<"welcome", "form", "regional">>
                       ELSE <<"welcome", "form">>)
        /\ (join # Nil /\ join.pos = "caught") =>
              (Kinds[Len(sends)] = "regional" /\ sends[Len(sends)].outcome = "threw")

\* C21 witness: both sends threw and the handler has ended
C21_Witness ==
    /\ Welcomed
    /\ join = Nil
    /\ Len(sends) = 2
    /\ sends[1].kind = "welcome" /\ sends[1].outcome = "threw"
    /\ sends[2].kind = "form" /\ sends[2].outcome = "threw"

\* the requests and timers a step added
NewTimers == timers' \ timers

\* C22: nothing is sent for a joined participant whose lock attempt returned
\* false or null, and no pending audio request is registered for them: every
\* send and every new request belongs to a member whose lock was acquired.
C22_NoLockNoWelcome ==
    /\ [](joinLog # Nil /\ joinLog.lock # "true" => sends = <<>>)
    /\ [][NewTimers # {} =>
            /\ joinLog.lock = "true"
            /\ \A t \in NewTimers :
                  t.memberKey = jidToDigitsKey(joinLog.member) /\ t.id = joinLog.group]_vars
    /\ [][(joinLog' # joinLog /\ joinLog'.lock # "true") =>
            UNCHANGED <<pendingAudioRequests, requestMaps, timers>>]_vars

\* C22 witness: Redis could not be reached for a member of the first-contact
\* group and the handler ended with nothing sent
C22_Witness ==
    /\ joinLog # Nil
    /\ joinLog.lock = "null"
    /\ joinLog.isFirstContactGroup
    /\ join = Nil
    /\ sends = <<>>
    /\ timers = {}

\* what both readings of C23 share: an audio send answers a message that is
\* not from the bot, whose trimmed text is "1" and whose sender had an
\* unexpired pending request in the group the audio goes to when the message
\* was looked at; a message with another text sends nothing and leaves the
\* requests as they are; a request whose audio went out is removed
AudioAnswersRequest ==
    /\ [](audio # Nil =>
            /\ ~audio.reply.msg.fromMe
            /\ Trim(audio.reply.msg.text) = One
            /\ audio.send.to = audio.reply.msg.remoteJid
            /\ audio.reply.request.key = jidToDigitsKey(audio.reply.msg.participant)
            /\ audio.reply.at <= audio.reply.request.expiresAt)
    /\ [](\A k \in 1..Len(replies) :
            /\ ~replies[k].msg.fromMe
            /\ Trim(replies[k].msg.text) = One)
    /\ [][(events' # events /\ handled' # Nil /\ Trim(handled'.msg.text) # One) =>
            UNCHANGED <<audio, replies, pendingAudioRequests, requestMaps, timers>>
            \/ handled'.verdict = "expired"]_vars
    /\ [][\A k \in 1..Len(replies) :
            (replies[k].pos = "sending" /\ replies[k].outcome = "sent"
             /\ replies' = RemoveAt(replies, k)) =>
                /\ \A r \in requestMaps'[replies[k].map] : r.key # replies[k].request.key
                /\ \A t \in timers' : t.timeoutId # replies[k].request.timeoutId]_vars

\* the handler at place k of replies starts its audio send in this step
StartsAudio(k) ==
    /\ Len(replies') = Len(replies)
    /\ replies[k].pos = "buffer"
    /\ replies'[k].pos = "sending"

C24_FoundInAnyForm ==
    (handled # Nil /\ ~handled.msg.fromMe /\ handled.pending) =>
        handled.verdict \notin {"notFound", "noRequests"}

\* C25: a join event that lists the bot, in any address form of it, sends
\* nothing for the bot and registers no pending audio request for it.
C25_NeverWelcomesItself ==
    /\ (joinLog # Nil /\ joinLog.member \in BotJids) => sends = <<>>
    /\ \A t \in timers : t.memberKey \notin {jidToDigitsKey(jid) : jid \in BotJids}

(***************************************************************************)
(* Order of phones and of work items (addTask.ts:514-555, redis.ts:91-104) *)
(***************************************************************************)
\* positions in hist of what was done for one of the phones
PhoneEvents == {k \in 1..Len(hist) : hist[k].idx > 0}

\* the phones of the current work item are taken in the order of memberPhones:
\* what is done for a phone is done for the phone at that position of the
\* lookup result, phone numbers never go back, nothing is done for a phone
\* once its iteration (attempt, record write, policy delay) has ended, and
\* nothing is done for a phone before the iteration of the phone before it ended
InLookupOrder ==
    /\ \A k \in PhoneEvents :
          /\ hist[k].idx <= Len(memberPhones)
          /\ hist[k].op = "getWhatsappAuthorization" =>
                hist[k].arg = SliceLast(normalizeDigits(memberPhones[hist[k].idx].phone), 8)
          /\ hist[k].op = "recordUserEntryToGroup" =>
                hist[k].arg = normalizeDigits(memberPhones[hist[k].idx].phone)
          /\ hist[k].idx > 1 =>
                \E l \in 1..(k - 1) : hist[l].op = "result" /\ hist[l].idx = hist[k].idx - 1
    /\ \A k, l \in PhoneEvents :
          k < l => /\ hist[k].idx <= hist[l].idx
                   /\ hist[k].op = "result" => hist[k].idx < hist[l].idx
    /\ pc \in {"auth", "add", "inviteCode", "sendNative", "inviteCodeFallback", "sendText",
               "inviteFailed", "outcome"} =>
          \A k \in PhoneEvents : hist[k].idx < i \/ (hist[k].idx = i /\ hist[k].op # "result")

\* a work item leaves a queue only from its head, and only while no work item
\* of that queue is being processed
PopsHead ==
    /\ addQueue' # addQueue =>
          /\ pc \in {"idle", "done", "threw"}
          /\ addQueue # <<>>
          /\ item' = Head(addQueue)
          /\ addQueue' = Tail(addQueue)
    /\ removeQueue' # removeQueue =>
          /\ rpc \in {"idle", "returned", "threw"}
          /\ removeQueue # <<>>
          /\ ritem' = Head(removeQueue)
          /\ removeQueue' = Tail(removeQueue)

\* C31: the phones of one work item are attempted strictly in the order the
\* registration lookup returned them, each only after the attempt, the record
\* write and the backoff of the phone before it have finished; the work items
\* of one queue are processed in the order in which they are popped from the
\* head of that queue.
C31_PhonesAndItemsInOrder == []InLookupOrder /\ [][PopsHead]_vars

\* C31 witness: two phones of one work item were both attempted, the second
\* after the first got its record write and its policy delay
C31_Witness ==
    /\ pc = "done"
    /\ Calls("groupParticipantsUpdate:add", 1) = 1
    /\ Calls("recordUserEntryToGroup", 1) = 1
    /\ Calls("delaySecs", 1) = 1
    /\ Calls("groupParticipantsUpdate:add", 2) = 1

(***************************************************************************)
(* findParticipant / isParticipantAdmin as functions (part_007:111-183)    *)
(***************************************************************************)
\* a roster entry with the five identity fields; Null is a missing or null field
Entry(phoneNumber, id, jid, lid, user, admin) ==
    [id |-> id, phoneNumber |-> phoneNumber, jid |-> jid, lid |-> lid, user |-> user,
     admin |-> admin]

\* roster entries: the same person by id with a device suffix, by phoneNumber
\* behind a lid, by jid only and by user only; entries without any usable field
FindEntries ==
    { Entry(Null, <<"1", "1", ":", "3">> \o WA_SUFFIX, Null, Null, Null, "admin"),
      Entry(<<"1", "1">> \o WA_SUFFIX, <<"9", "0">> \o LID_SUFFIX, Null,
            <<"9", "0">> \o LID_SUFFIX, Null, "none"),
      Entry(Null, Null, <<"2", "2">> \o WA_SUFFIX, Null, Null, "superadmin"),
      Entry(Null, <<>>, Null, Null, <<"+", "2", "2">>, "none"),
      Entry(Null, <<"x">> \o LID_SUFFIX, Null, <<>>, Null, "admin") }

\* rosters of up to three entries, in every order
FindRosters ==
    {Meta(<<>>)} \cup {Meta(<<a>>) : a \in FindEntries}
        \cup {Meta(<<a, b>>) : a \in FindEntries, b \in FindEntries}
        \cup {Meta(<<a, b, c>>) : a \in FindEntries, b \in FindEntries, c \in FindEntries}

\* target addresses: with and without device suffix, a lid, bare digits, and
\* addresses without digits
FindTargets ==
    { <<"1", "1">> \o WA_SUFFIX, <<"1", "1", ":", "7">> \o WA_SUFFIX,
      <<"9", "0">> \o LID_SUFFIX, <<"2", "2">>, <<"x">> \o LID_SUFFIX, <<>>, Null }

FindAlternates == {Null, <<"2", "2", ":", "1">> \o WA_SUFFIX, <<"9", "0">> \o LID_SUFFIX}

InitFind ==
    /\ findArgs \in [meta : FindRosters, userIdLike : FindTargets, altId : FindAlternates]
    /\ findPc = "called"
    /\ findResult = Nil
    /\ adminResult = FALSE
    /\ member_groups = <<>>
    /\ now = 0
    /\ config \in {c \in DelayConfigs : c.MIN_DELAY <= c.MAX_DELAY}
    /\ AddIdle
    /\ RemoveIdle
    /\ LoopIdle
    /\ addMode = TRUE
    /\ removeMode = TRUE
    /\ ConnIdle
    /\ RowsIdle
    /\ RetryIdle
    /\ WelcomeIdle
    /\ ModIdle
    /\ FleetIdle

\* part_007:158-172
FindCall ==
    /\ findPc = "called"
    /\ findResult' = findParticipant(findArgs.meta, findArgs.userIdLike, findArgs.altId)
    /\ findPc' = "found"
    /\ UNCHANGED <<findArgs, adminResult>>
    /\ UNCHANGED <<sharedVars, addVars, removeVars, loopVars, connVars, rowVars, retryVars,
                   welcomeVars, modVars, fleetVars>>

\* part_007:175-183
AdminCall ==
    /\ findPc = "found"
    /\ adminResult' = isParticipantAdmin(findArgs.meta, findArgs.userIdLike, findArgs.altId)
    /\ findPc' = "checked"
    /\ UNCHANGED <<findArgs, findResult>>
    /\ UNCHANGED <<sharedVars, addVars, removeVars, loopVars, connVars, rowVars, retryVars,
                   welcomeVars, modVars, fleetVars>>

NextFind == FindCall \/ AdminCall

SpecFind == InitFind /\ [][NextFind]_vars

\* the numeric key of an address: the digits of what stands before the first
\* "@" or ":", the empty sequence when there is no address or no such digit
NumericKey(address) ==
    IF address = Null THEN <<>>
    ELSE LET stops == {k \in 1..Len(address) : address[k] \in {"@", ":"}}
             last == IF stops = {} THEN Len(address)
                     ELSE (CHOOSE k \in stops : \A j \in stops : k <= j) - 1
         IN  SelectSeq(SubSeq(address, 1, last), LAMBDA c : c \in Digits)

IdentityFields == {"phoneNumber", "id", "jid", "lid", "user"}

\* one identity field of p has the numeric key of the target or of the alternate
SamePerson(p, args) ==
    \E f \in IdentityFields :
        /\ NumericKey(p[f]) # <<>>
        /\ NumericKey(p[f]) \in {NumericKey(args.userIdLike), NumericKey(args.altId)}

\* positions of the roster that hold the person looked for
Matching(args) ==
    {k \in 1..Len(args.meta.participants) : SamePerson(args.meta.participants[k], args)}

\* C32: findParticipant returns the first roster participant, in roster order,
\* one of whose identity fields (phoneNumber, id, jid, lid, user) has the
\* numeric key of the target address or of the alternate address; it returns
\* nothing when neither target yields digits; missing or null identity fields
\* are passed over; isParticipantAdmin is true exactly when the participant
\* returned has role admin or superadmin.
C32_FirstMatchInRosterOrder ==
    /\ findPc \in {"found", "checked"} =>
          /\ (NumericKey(findArgs.userIdLike) = <<>> /\ NumericKey(findArgs.altId) = <<>>)
                => findResult = Nil
          /\ Matching(findArgs) = {} => findResult = Nil
          /\ Matching(findArgs) # {} =>
                \E k \in Matching(findArgs) :
                    /\ \A j \in Matching(findArgs) : k <= j
                    /\ findResult = findArgs.meta.participants[k]
    /\ findPc = "checked" =>
          adminResult = (findResult # Nil /\ findResult.admin \in {"admin", "superadmin"})

\* C32 witness: the person is in the roster twice, first as a plain member
\* known by phoneNumber behind a lid and then as an admin; the target names
\* the device-suffixed address; the first entry is returned and the person is
\* not an admin
C32_Witness ==
    /\ findPc = "checked"
    /\ Cardinality(Matching(findArgs)) >= 2
    /\ findArgs.altId = Null
    /\ findResult # Nil
    /\ findResult.admin = "none"
    /\ findResult.id = <<"9", "0">> \o LID_SUFFIX
    /\ \E k \in Matching(findArgs) : findArgs.meta.participants[k].admin = "admin"
    /\ ~adminResult

(***************************************************************************)
(* The consolidated failure notification (addTask.ts:557-578)              *)
(***************************************************************************)
\* step 5 of processAddQueue has run for the current work item
Finalized == memberPhones # <<>> /\ i > Len(memberPhones) /\ pc \in {"done", "threw"}

\* invocations of safeNotifyFailure with the consolidated reason
ConsolidatedNotices ==
    {k \in 1..Len(hist) :
        hist[k].op = "sendAdditionFailedReason" /\ hist[k].arg = <<"consolidated">>}

\* the phones of the current work item that were skipped for lack of authorization
SkippedUnauthorized ==
    {normalizeDigits(memberPhones[idx].phone) :
        idx \in {j \in PhoneIndexes : HasResult(j) /\ ResultOf(j) = "unauthorized"}}

\* C33 as claimed: when no phone of an Add work item succeeded, the finalize
\* step sends exactly one consolidated failure notification, which lists
\* every phone skipped for lack of authorization; when a phone succeeded it
\* sends none.
C33_ConsolidatedNotification ==
    Finalized =>
        IF \E idx \in PhoneIndexes : Succeeded(idx)
        THEN ConsolidatedNotices = {}
        ELSE /\ Cardinality(ConsolidatedNotices) = 1
             /\ SkippedUnauthorized \subseteq
                    {notAuthorizedNumbers[k] : k \in 1..Len(notAuthorizedNumbers)}
             /\ (\E k \in 1..Len(hist) : hist[k] = Ev("notifyAdditionFailure", 0, <<"consolidated">>))
                    => group_requests[item.request_id].failure_reason =
                           Reason("consolidated", notAuthorizedNumbers)

(***************************************************************************)
(* Loops of the process (index.ts:106-144, part_010:198-243 and 322-363)   *)
(***************************************************************************)
\* main loops that have been started and have not left their while: the loop
\* of the current main() and the loops of earlier main() calls that still
\* finish an iteration (processAddQueue, delaySecs, processRemoveQueue, delaySecs)
ActiveLoops == (IF running THEN 1 ELSE 0) + draining

\* C34 as claimed: at any time at most one queue-consumption loop is active
\* in the process; across any sequence of connection open and close events a
\* new main loop is never started while a loop started before can still pop
\* or process a work item.
C34_OneLoopAtATime == ActiveLoops <= 1

(***************************************************************************)
(* Link moderation (part_006:163-184 and 210-296)                          *)
(***************************************************************************)
NEWSLETTER_SUFFIX == <<"@", "n", "e", "w", "s", "l", "e", "t", "t", "e", "r">>

\* a message text and the link detectors of part_006:12-27 and 120-139 that fire
\* on it or on its normalized form
Text(content, detects) == [content |-> content, detects |-> detects]

ModTexts ==
    { Text("hello", {}),
      Text("", {}),
      Text("https://chat.whatsapp.com/AbCdEfGhIj", {"groupInvite"}),
      Text("wa[.]me/5511", {"waMe"}),
      Text("bit.ly/x and groups.example.com/join", {"shortened", "community"}),
      Text("mensa.org/community", {}) }

\* msg.key.remoteJid: a group, a newsletter, a private chat, none
ModRemotes == {GroupFull, <<"7", "7">> \o NEWSLETTER_SUFFIX, TargetJid, <<>>}

\* msg.key.participant: the target by phone number and by lid, a stranger, none
ModSenders == {TargetJid, <<"6", "0", "0">> \o LID_SUFFIX, <<"3", "1">> \o WA_SUFFIX, Null}

ModMessages == [remoteJid : ModRemotes, participant : ModSenders, text : ModTexts]

\* part_006:224-236
hasModeratableLink(text) == text.detects # {}

\* part_006:247-261: the reason by precedence of the detectors
deletionReason(text) ==
    IF "groupInvite" \in text.detects THEN "group_invite_link"
    ELSE IF "shortened" \in text.detects THEN "shortened_link"
    ELSE IF "apiWhatsApp" \in text.detects THEN "api_whatsapp_link"
    ELSE IF "waMe" \in text.detects THEN "wa_me_link"
    ELSE IF "bannedId" \in text.detects THEN "community_id"
    ELSE IF "community" \in text.detects THEN "community_link"
    ELSE "link"

\* msg.key.participant || msg.key.remoteJid
SenderOf(m) == IF m.participant \in {Null, <<>>} THEN m.remoteJid ELSE m.participant

NoDeletion == [attempted |-> FALSE, deleted |-> FALSE, called |-> FALSE]

\* a deletion that does not spare admins, set against deleteMessageIfAllowed below
deleteMessageIfAllowed_AdminsToo(m, meta, outcome) ==
    IF m.remoteJid \in {Null, <<>>} THEN Nil
    ELSE IF ~EndsWith(m.remoteJid, GROUP_SUFFIX) \/ meta = Nil THEN NoDeletion
    ELSE [attempted |-> TRUE, deleted |-> outcome = "sent", called |-> TRUE]

\* deleteMessageIfAllowed (part_006:163-184) with sock.sendMessage(.., {delete})
\* settling as outcome; Nil is the void return, called tells whether
\* sendMessage was reached
deleteMessageIfAllowed(m, meta, outcome) ==
    IF m.remoteJid \in {Null, <<>>} THEN Nil
    ELSE IF ~EndsWith(m.remoteJid, GROUP_SUFFIX) \/ meta = Nil THEN NoDeletion
    ELSE LET p == findParticipant(meta, SenderOf(m), Null)
         IN  IF p # Nil /\ p.admin # "none" THEN NoDeletion
             ELSE [attempted |-> TRUE, deleted |-> outcome = "sent", called |-> TRUE]

ModEv(op, arg) == [op |-> op, arg |-> arg]

InitModeration ==
    /\ linkModeration \in {"true", "false", "unset"}
    /\ modMsg = Nil
    /\ modPc = "idle"
    /\ modMeta = Nil
    /\ deletion = Nil
    /\ modLog = <<>>
    /\ whatsapp_moderation = <<>>
    /\ member_groups = <<>>
    /\ now = 0
    /\ config \in {c \in DelayConfigs : c.MIN_DELAY <= c.MAX_DELAY}
    /\ AddIdle
    /\ RemoveIdle
    /\ LoopIdle
    /\ addMode = TRUE
    /\ removeMode = TRUE
    /\ ConnIdle
    /\ RowsIdle
    /\ RetryIdle
    /\ WelcomeIdle
    /\ FindIdle
    /\ FleetIdle

\* part_006:214-216: only groups and newsletters are moderated
ModArrives ==
    /\ modPc = "idle"
    /\ \E m \in ModMessages :
          /\ modMsg' = m
          /\ modPc' = IF EndsWith(m.remoteJid, GROUP_SUFFIX)
                         \/ EndsWith(m.remoteJid, NEWSLETTER_SUFFIX)
                      THEN "metadata" ELSE "returned"
    /\ UNCHANGED <<linkModeration, modMeta, deletion, modLog, whatsapp_moderation>>
    /\ UNCHANGED <<sharedVars, addVars, removeVars, loopVars, connVars, rowVars, retryVars,
                   welcomeVars, findVars, fleetVars>>

\* part_006:220-238 with getGroupMetadata (154-161): a roster that cannot be
\* fetched is null
ModMetadata ==
    /\ modPc = "metadata"
    /\ \E out \in RosterOutcomes :
          LET meta == IF out.kind = "meta" THEN out.meta ELSE Nil
          IN  /\ modMeta' = meta
              /\ modPc' = IF linkModeration = "true" /\ hasModeratableLink(modMsg.text)
                               /\ meta # Nil
                          THEN "delete" ELSE "content"
    /\ modLog' = Append(modLog, ModEv("groupMetadata", modMsg.remoteJid))
    /\ UNCHANGED <<linkModeration, modMsg, deletion, whatsapp_moderation>>
    /\ UNCHANGED <<sharedVars, addVars, removeVars, loopVars, connVars, rowVars, retryVars,
                   welcomeVars, findVars, fleetVars>>

\* part_006:239-242
ModDelete ==
    /\ modPc = "delete"
    /\ \E outcome \in {"sent", "throw"} :
          LET d == deleteMessageIfAllowed(modMsg, modMeta, outcome)
          IN  /\ deletion' = d
              /\ modLog' = IF d # Nil /\ d.called
                           THEN Append(modLog, ModEv("sendMessage:delete", outcome))
                           ELSE modLog
              /\ modPc' = IF d # Nil /\ d.attempted THEN "record" ELSE "content"
    /\ UNCHANGED <<linkModeration, modMsg, modMeta, whatsapp_moderation>>
    /\ UNCHANGED <<sharedVars, addVars, removeVars, loopVars, connVars, rowVars, retryVars,
                   welcomeVars, findVars, fleetVars>>

\* part_006:243-292: the record of an attempted deletion; neither a failing
\* lookup of the registration nor a failing insert leaves the handler
ModRecord ==
    /\ modPc = "record"
    /\ \E registrationId \in {7, 0}, lookupOk \in BOOLEAN, insertOk \in BOOLEAN :
          LET fromJid == modMsg.remoteJid
              groupId == IF EndsWith(fromJid, GROUP_SUFFIX)
                         THEN SubSeq(fromJid, 1, Len(fromJid) - Len(GROUP_SUFFIX))
                         ELSE fromJid
              phone == StripNonDigits(SplitFirst(SenderOf(modMsg), "@"))
              row == [registration_id |-> IF phone # <<>> /\ lookupOk THEN registrationId ELSE 0,
                      group_id |-> groupId, deleted |-> deletion.deleted,
                      reason |-> deletionReason(modMsg.text), phone |-> phone,
                      content |-> modMsg.text.content]
          IN  /\ modLog' = modLog
                    \o (IF phone # <<>> THEN <<ModEv("findRegistrationIdByPhone", phone)>>
                        ELSE <<>>)
                    \o <<ModEv("insertWhatsAppModeration", row.reason)>>
              /\ whatsapp_moderation' = IF insertOk THEN Append(whatsapp_moderation, row)
                                        ELSE whatsapp_moderation
    /\ modPc' = "content"
    /\ UNCHANGED <<linkModeration, modMsg, modMeta, deletion>>
    /\ UNCHANGED <<sharedVars, addVars, removeVars, loopVars, connVars, rowVars, retryVars,
                   welcomeVars, findVars, fleetVars>>

\* part_006:294-334: the optional content moderation sends no deletion and
\* writes no moderation record
ModContent ==
    /\ modPc = "content"
    /\ modPc' = "returned"
    /\ UNCHANGED <<linkModeration, modMsg, modMeta, deletion, modLog, whatsapp_moderation>>
    /\ UNCHANGED <<sharedVars, addVars, removeVars, loopVars, connVars, rowVars, retryVars,
                   welcomeVars, findVars, fleetVars>>

NextModeration == ModArrives \/ ModMetadata \/ ModDelete \/ ModRecord \/ ModContent

SpecModeration == InitModeration /\ [][NextModeration]_vars

\* positions in modLog of the calls of op
ModCalls(op) == {k \in 1..Len(modLog) : modLog[k].op = op}

\* the roster entry the sender of the message is matched to is an admin or superadmin
SenderIsAdmin ==
    /\ modMeta # Nil
    /\ LET args == [meta |-> modMeta, userIdLike |-> SenderOf(modMsg), altId |-> Null]
       IN  \E k \in Matching(args) :
              /\ \A j \in Matching(args) : k <= j
              /\ modMeta.participants[k].admin \in {"admin", "superadmin"}

\* C35: link moderation never deletes a message whose sender is matched to an
\* admin or superadmin of the group roster; it attempts a deletion only for a
\* message in a group whose roster was resolved, with link moderation enabled
\* and a moderatable link in the text; and it stores a moderation record
\* exactly when a deletion was attempted, whether or not the deletion
\* succeeded, the record telling which.
C35_LinkModeration ==
    /\ Cardinality(ModCalls("sendMessage:delete")) <= 1
    /\ ModCalls("sendMessage:delete") # {} =>
          /\ ~SenderIsAdmin
          /\ EndsWith(modMsg.remoteJid, GROUP_SUFFIX)
          /\ modMeta # Nil
          /\ linkModeration = "true"
          /\ hasModeratableLink(modMsg.text)
    /\ Cardinality(ModCalls("insertWhatsAppModeration"))
          <= Cardinality(ModCalls("sendMessage:delete"))
    /\ modPc = "returned" =>
          Cardinality(ModCalls("insertWhatsAppModeration"))
              = Cardinality(ModCalls("sendMessage:delete"))
    /\ Len(whatsapp_moderation) <= Cardinality(ModCalls("insertWhatsAppModeration"))
    /\ \A k \in 1..Len(whatsapp_moderation) :
          /\ whatsapp_moderation[k].deleted
                = (\E j \in ModCalls("sendMessage:delete") : modLog[j].arg = "sent")
          /\ whatsapp_moderation[k].content = modMsg.text.content

\* C35 witness: with link moderation enabled an admin known to the roster by
\* lid posted a group invite link in the group; nothing was deleted and no
\* record was stored
C35_Witness ==
    /\ modPc = "returned"
    /\ linkModeration = "true"
    /\ modMsg.text.detects = {"groupInvite"}
    /\ modMsg.participant = <<"6", "0", "0">> \o LID_SUFFIX
    /\ SenderIsAdmin
    /\ deletion = NoDeletion
    /\ ModCalls("sendMessage:delete") = {}
    /\ whatsapp_moderation = <<>>

(***************************************************************************)
(* A success is never lost (addTask.ts:514-562)                            *)
(***************************************************************************)
\* C36 as claimed: if any phone of an Add work item ended added, invited or
\* already_member, the request is marked fulfilled before the cycle ends,
\* whatever happens while the other phones of the item are processed (the
\* authorization lookup failing, the backoff delay rejecting its arguments,
\* a later phone having an invalid identity).
C36_SuccessIsNeverLost ==
    (AddItemEnded /\ \E idx \in PhoneIndexes : Succeeded(idx)) =>
        CallsOf("registerWhatsappAddFulfilled") = 1

(***************************************************************************)
(* An entry and the exit that follows it (addTask.ts:475 and 522-551,      *)
(* removeTask.ts:88-104, pgsql.ts:75-98)                                   *)
(***************************************************************************)
\* the member of registration 9 is added to group 1203 and later removed from
\* it: the two work items name the group with and without "@g.us", the Remove
\* item names the phone with and without formatting, with and without the
\* community of the group
PairAdditions == {<<AddItem(1, <<"9">>, g, "DEFAULT")>> : g \in {GroupRaw, GroupFull}}

PairRemovals ==
    {<<RemoveItem(<<"9">>, g, p, "expired", c)>> :
        g \in {GroupRaw, GroupFull}, p \in {<<"5", "5">> \o KeyA, PhoneA},
        c \in {Null, CommunityRaw}}

InitPairs ==
    /\ addQueue \in PairAdditions
    /\ whatsapp_authorization \in AuthTables
    /\ group_requests = [r \in RequestIds |-> RequestRow(FALSE, 0)]
    /\ member_groups = <<>>
    /\ now = 0
    /\ config \in {c \in DelayConfigs : c.MIN_DELAY <= c.MAX_DELAY}
    /\ pc = "idle"
    /\ item = Nil
    /\ groupJid = Null
    /\ memberPhones = <<>>
    /\ i = 0
    /\ results = Nil
    /\ notAuthorizedNumbers = <<>>
    /\ cur = NoCur
    /\ hist = <<>>
    /\ before = group_requests
    /\ removeQueue \in PairRemovals
    /\ rpc = "idle"
    /\ ritem = Nil
    /\ ruserJid = Null
    /\ rosters = NoRosters
    /\ rresult = Nil
    /\ rret = "none"
    /\ rhist = <<>>
    /\ WorkerIdle
    /\ addMode = TRUE
    /\ removeMode = TRUE

\* the Add work item is processed first; the Remove work item is popped once
\* processAddQueue has found addQueue empty
NextPairs ==
    \/ NextAdd
    \/ (pc = "idle" /\ addQueue = <<>> /\ NextRemove)

SpecPairs == InitPairs /\ [][NextPairs]_vars

\* membership rows the add flow wrote for the member and the group that the
\* Remove work item names
RowsOfRemoved ==
    {k \in 1..Len(member_groups) :
        /\ member_groups[k].phone_number = normalizeDigits(ritem.phone)
        /\ member_groups[k].group_id = asGroupJid(ritem.groupId)}

\* the remove flow removed the member from the group or from its community
RemovedSuccessfully == rpc = "returned" /\ rret = "true"

\* C37 as claimed: entry and exit records pair up. After the add flow
\* recorded an Active membership row for a member in a group and the remove
\* flow removed that member from that group successfully, no membership row
\* of that member and group is left open, whether the work items name the
\* group with or without "@g.us", whether the phone carries a prefix, and
\* whether the removal happened at community or at group scope.
C37_EntryAndExitPairUp ==
    RemovedSuccessfully =>
        \A k \in RowsOfRemoved : member_groups[k].exit_date # 0

(***************************************************************************)
(* Failure reasons in a fulfilled cycle (addTask.ts:557-562, 613-641)      *)
(***************************************************************************)
\* the current work item ended with the request marked fulfilled
FulfilledCycle ==
    /\ pc = "done"
    /\ CallsOf("registerWhatsappAddFulfilled") = 1
    /\ group_requests[item.request_id].fulfilled

\* positions in hist of the failure_reason writes and of the notifications
FailureReports ==
    {k \in 1..Len(hist) : hist[k].op \in {"sendAdditionFailedReason", "notifyAdditionFailure"}}

\* the phones of the current work item whose add attempt and invite both failed
FailedPhones == {idx \in PhoneIndexes : HasResult(idx) /\ ResultOf(idx) = "failed"}

AudioGoingOut(k) ==
    /\ replies[k].pos = "sending"
    /\ replies[k].outcome = "sent"

\* C39: under any interleaving of messages.upsert and
\* group-participants.update events, each registered pending audio request
\* leads to at most one audio send: no two audio sends that go out are under
\* way for the same request, and no audio send that goes out starts for a
\* request whose audio already went out.
C39_OneAudioPerRequest ==
    /\ [](\A j, k \in 1..Len(replies) :
            (j # k /\ AudioGoingOut(j) /\ AudioGoingOut(k)) =>
                replies[j].request # replies[k].request)
    /\ [][\A k \in 1..Len(replies) :
            (StartsAudio(k) /\ replies'[k].outcome = "sent") =>
                ~(/\ audio # Nil
                  /\ audio.send.outcome = "sent"
                  /\ audio.reply.request = replies[k].request)]_vars

(***************************************************************************)
(* Several workers sharing one Redis (redis.ts:54-72,                      *)
(* firstContactWelcome.ts:167-278)                                         *)
(***************************************************************************)
MaxWorkers == 2

Workers == 1..MaxWorkers

\* WELCOME_DEDUP_TTL_MS (firstContactWelcome.ts:13) in ticks of the clock
WELCOME_DEDUP_TTL == AUDIO_REQUEST_WINDOW

\* the forms in which the join of one person reaches a worker
FleetJoiners ==
    { Joiner(Null, MemberPn), Joiner(Null, MemberPnDevice), Joiner(Null, MemberLid),
      Joiner(MemberPn, MemberLid) }

\* a worker whose handler has not run
WorkerWaiting ==
    [pos |-> "idle", member |-> Null, lock |-> "none", lockAt |-> 0, sends |-> <<>>]

\* the keys Redis still holds: a key set with PX is gone once its time is up
LiveLocks == {l \in redisLocks : l.expiresAt > now}

\* every worker runs with FIRST_CONTACT_GROUP_NAME naming WelcomeGroup
InitFleet ==
    /\ redisLocks = {}
    /\ fleet = [w \in Workers |-> WorkerWaiting]
    /\ normalizedTargetName = FirstContactName
    /\ subjects = [g \in WGroups |-> IF g = WelcomeGroup THEN FirstContactName ELSE OtherName]
    /\ groupNameCache = [g \in WGroups |-> "none"]
    /\ audioFile = TRUE
    /\ locks = {}
    /\ pendingAudioRequests = [g \in WGroups |-> 0]
    /\ requestMaps = <<>>
    /\ timers = {}
    /\ join = Nil
    /\ replies = <<>>
    /\ events = 0
    /\ joinLog = Nil
    /\ sends = <<>>
    /\ audio = Nil
    /\ handled = Nil
    /\ member_groups = <<>>
    /\ now = 0
    /\ config \in {c \in DelayConfigs : c.MIN_DELAY <= c.MAX_DELAY}
    /\ AddIdle
    /\ RemoveIdle
    /\ LoopIdle
    /\ addMode = TRUE
    /\ removeMode = TRUE
    /\ ConnIdle
    /\ RowsIdle
    /\ RetryIdle
    /\ FindIdle
    /\ ModIdle

\* firstContactWelcome.ts:167-203: worker w receives the join event of the
\* member in WelcomeGroup, in one of the member's address forms
FleetReceives(w) ==
    /\ fleet[w].pos = "idle"
    /\ \E p \in FleetJoiners, metadata \in {"ok", "threw"} :
        LET member == normalizeParticipantId(p)
            first == ensureGroupCached(groupNameCache, WelcomeGroup, normalizedTargetName,
                                       subjects[WelcomeGroup], metadata)
        IN  fleet' = [fleet EXCEPT ![w].member = member,
                                   ![w].pos = IF shouldWelcome("add") /\ first.is
                                              THEN "lock" ELSE "done"]
    /\ UNCHANGED <<redisLocks, findVars, modVars>>
    /\ UNCHANGED <<sharedVars, addVars, removeVars, loopVars, connVars, rowVars, retryVars,
                   welcomeVars>>

\* firstContactWelcome.ts:204-220 and redis.ts:54-72: worker w asks Redis for
\* the lock of the member
FleetLocks(w) ==
    /\ fleet[w].pos = "lock"
    /\ \E redisUp \in BOOLEAN :
        LET r == tryAcquireFirstContactLock({l.key : l \in LiveLocks}, WelcomeGroup,
                                            fleet[w].member, redisUp)
        IN  /\ redisLocks' = IF r.result = "true"
                             THEN LiveLocks \cup {[key |-> <<WelcomeGroup, fleet[w].member>>,
                                                   expiresAt |-> now + WELCOME_DEDUP_TTL]}
                             ELSE redisLocks
            /\ fleet' = [fleet EXCEPT ![w].lock = r.result,
                                      ![w].lockAt = now,
                                      ![w].pos = IF LockAllows(r.result)
                                                 THEN "welcome" ELSE "done"]
    /\ UNCHANGED <<findVars, modVars>>
    /\ UNCHANGED <<sharedVars, addVars, removeVars, loopVars, connVars, rowVars, retryVars,
                   welcomeVars>>

\* firstContactWelcome.ts:222-263: worker w sends the welcome text
FleetWelcomes(w) ==
    /\ fleet[w].pos = "welcome"
    /\ \E outcome \in SendOutcomes2 :
        fleet' = [fleet EXCEPT ![w].sends = Append(@, SendAttempt("welcome", WelcomeGroup,
                                                                    <<fleet[w].member>>,
                                                                    outcome)),
                               ![w].pos = AfterWelcome(outcome)]
    /\ UNCHANGED <<redisLocks, findVars, modVars>>
    /\ UNCHANGED <<sharedVars, addVars, removeVars, loopVars, connVars, rowVars, retryVars,
                   welcomeVars>>

\* firstContactWelcome.ts:265-278: worker w sends the form text
FleetForm(w) ==
    /\ fleet[w].pos = "form"
    /\ \E outcome \in SendOutcomes2 :
        fleet' = [fleet EXCEPT ![w].sends = Append(@, SendAttempt("form", WelcomeGroup,
                                                                    <<>>, outcome)),
                               ![w].pos = "done"]
    /\ UNCHANGED <<redisLocks, findVars, modVars>>
    /\ UNCHANGED <<sharedVars, addVars, removeVars, loopVars, connVars, rowVars, retryVars,
                   welcomeVars>>

NextFleet ==
    \/ \E w \in Workers : FleetReceives(w)
    \/ \E w \in Workers : FleetLocks(w)
    \/ \E w \in Workers : FleetWelcomes(w)
    \/ \E w \in Workers : FleetForm(w)
    \/ Tick

SpecFleet == InitFleet /\ [][NextFleet]_vars

\* worker w sent welcome messages for the member
WelcomedBy(w) == fleet[w].sends # <<>>

\* workers v and w asked for the lock of the same person less than the lock's
\* time to live apart
WithinTtl(v, w) ==
    /\ fleet[v].lock # "none"
    /\ fleet[w].lock # "none"
    /\ fleet[v].member \in PersonOf(fleet[w].member)
    /\ fleet[v].lockAt - fleet[w].lockAt < WELCOME_DEDUP_TTL
    /\ fleet[w].lockAt - fleet[v].lockAt < WELCOME_DEDUP_TTL

\* C40: when several workers that share one Redis each receive the join event
\* of the same participant in the same group within the lock's time to live,
\* at most one of them sends the welcome messages for that participant.
C40_OneWorkerWelcomes ==
    \A v, w \in Workers :
        (v # w /\ WithinTtl(v, w)) => ~(WelcomedBy(v) /\ WelcomedBy(w))

====
